---- MODULE Spec2Model ----
(***************************************************************************)
(* Rox-VM front end: Scanner::scan_tokens and the single-pass Pratt        *)
(* compiler (Compiler::compile) with its locals table and chunk.           *)
(*                                                                         *)
(* The compiler is recursive descent; the model keeps the Rust call stack  *)
(* explicitly in `stack`: one frame per active call of a function that     *)
(* calls back into the parser, with `pc` naming the position after the     *)
(* last nested call.  Functions that do not recurse are operators over the *)
(* record St of the compiler's fields.  A Rust panic (expect on None,      *)
(* todo!, panic!, index out of bounds) ends the run in status "panicked".  *)
(***************************************************************************)
EXTENDS Integers, Sequences, FiniteSets, TLC

VARIABLES
    tokens,         \* the token vector handed to Compiler::new
    tokpos,         \* Compiler.tokens: how many tokens the iterator has yielded
    previous,       \* Compiler.previous : Option<&Token>
    current,        \* Compiler.current  : Option<&Token>
    had_error,      \* Compiler.had_error
    panic_mode,     \* Compiler.panic_mode
    locals,         \* Compiler.locals.locals : [Local; LOCALS_COUNT]
    count,          \* Compiler.locals.count
    scope_depth,    \* Compiler.scope_depth
    code,           \* Chunk.code
    lines,          \* Chunk.lines
    values,         \* Chunk.constants.values
    global_indices, \* Chunk.global_indices : name -> index into values
    stderr,         \* the diagnostics written by error_at (eprintln!)
    stack,          \* the call stack below Compiler::compile
    status,         \* "idle" | "running" | "done" | "panicked"
    panic_msg,      \* which panic ended the run ("" while none)
    result,         \* the value compile() returned (meaningful when done)
    source,         \* scan_tokens: the source text, a sequence of chars
    line_num,       \* scan_tokens: index of the line being scanned (0-based)
    line_chars,     \* scan_tokens: how many chars of the line the peeker has yielded
    ch,             \* scan_tokens: the char the loop body was last entered with
    char_num,       \* scan_tokens: that char's byte offset in the line
    scanned,        \* scan_tokens: the tokens vector being built
    scan_status,    \* "idle" | "running" | "done" | "panicked"
    lhs,            \* Value::eq: self
    rhs,            \* Value::eq: other
    eq_ret,         \* Value::eq: the bool returned (None before the call)
    overflow_checks, \* the build: TRUE with overflow checks (debug), FALSE without
    stack_values,   \* RawStack.values : [Option<Value>; STACK_MAX]
    size,           \* RawStack.size (usize, read as isize once it has wrapped)
    stack_ptr,      \* RawStack.stack_ptr, as the slot index it points at
    stack_ret,      \* the last RawStack call: [fn, arg, val], val what it returned
    stack_status    \* "idle" | "running" | "panicked" | "crashed"

compiler_vars == <<tokens, tokpos, previous, current, had_error, panic_mode,
                   locals, count, scope_depth, code, lines, values,
                   global_indices, stderr, stack, status, panic_msg, result>>
scanner_vars == <<source, line_num, line_chars, ch, char_num, scanned, scan_status>>
value_vars == <<lhs, rhs, eq_ret>>
raw_stack_vars == <<overflow_checks, stack_values, size, stack_ptr, stack_ret,
                    stack_status>>
vars == <<compiler_vars, scanner_vars, value_vars, raw_stack_vars>>

(***************************************************************************)
(* Bounds of the model.                                                    *)
(***************************************************************************)
\* capacity of the locals table (frontend::LOCALS_COUNT, scaled down)
LOCALS_COUNT == 2
\* longest token sequence (before EOF) drawn over the whole token alphabet
MaxAnyTokens == 2
\* most phrases concatenated into one program
MaxPhrases == 3
\* longest source text given to the scanner
MaxSourceLen == 3
\* RawStack: slots of the values array (the crate sets 256)
STACK_MAX == 3
\* RawStack: how many slots stack_ptr is followed outside the values array
MaxStray == 1
\* scan and compile: frames on the call stack before the thread's stack overflows
MaxCallDepth == 12
\* scan and compile: opcodes in the chunk before its allocation fails
MaxCodeLen == 6

None == <<>>
Some(x) == <<x>>

(***************************************************************************)
(* Tokens.  TokenType's == compares the kind only (consume and check_token *)
(* are called with placeholder payloads).                                  *)
(***************************************************************************)
Token(type, str, num, line, column) ==
    [type |-> type, str |-> str, num |-> num, line |-> line, column |-> column]

TokenTypeEq(a, b) == a = b

(***************************************************************************)
(* Precedence levels and Precedence::get_next.                             *)
(***************************************************************************)
PrecNone == 0
PrecAssign == 1
PrecOr == 2
PrecAnd == 3
PrecEquality == 4
PrecComparison == 5
PrecTerm == 6
PrecFactor == 7
PrecUnary == 8
PrecCall == 9
PrecPrimary == 10

get_next(p) == IF p < PrecPrimary THEN p + 1 ELSE PrecPrimary

(***************************************************************************)
(* Values and opcodes.                                                     *)
(***************************************************************************)
NumberValue(n) == [tag |-> "Number", num |-> n, str |-> ""]
ObjStringValue(s) == [tag |-> "Object", num |-> 0, str |-> s]

\* an opcode with no operand, with an operand, and a jump with Option<usize>
Op0(name) == [op |-> name, arg |-> None]
Op1(name, n) == [op |-> name, arg |-> Some(n)]

(***************************************************************************)
(* Diagnostics.                                                            *)
(***************************************************************************)
MsgTooManyLocals == "Too many local variables in function."
MsgAlreadyDeclared == "Already a variable with this name in scope."
MsgOwnInitializer == "Can't read local variable in its own initializer."
MsgInvalidAssign == "Invalid assignment target."
MsgNoPrefix == "No prefix function parsed for precedence."
MsgNoInfix == "No infix function parsed."
MsgLoopTooLarge == "Loop body too large"
MsgUnexpectedChar == "Unexpected char read from source"
MsgUnterminated == "Unterminated string literal"

(***************************************************************************)
(* The compiler's fields as one record, for the operators below.           *)
(***************************************************************************)
St == [tokpos |-> tokpos, previous |-> previous, current |-> current,
       had_error |-> had_error, panic_mode |-> panic_mode,
       locals |-> locals, count |-> count, scope_depth |-> scope_depth,
       code |-> code, lines |-> lines, values |-> values,
       global_indices |-> global_indices, stderr |-> stderr,
       status |-> status, panic_msg |-> panic_msg]

Running(s) == s.status = "running"

Panic(s, why) ==
    IF Running(s) THEN [s EXCEPT !.status = "panicked", !.panic_msg = why] ELSE s

(***************************************************************************)
(* Error reporter.                                                         *)
(***************************************************************************)
error_at_ignoring_panic_mode(s, token, message) ==
    [s EXCEPT !.panic_mode = TRUE,
              !.stderr = Append(@, [line |-> token.line, column |-> token.column,
                                    message |-> message]),
              !.had_error = TRUE]

error_at_not_latching(s, token, message) ==
    IF s.panic_mode THEN s
    ELSE [s EXCEPT !.panic_mode = TRUE,
                   !.stderr = Append(@, [line |-> token.line, column |-> token.column,
                                         message |-> message])]

error_at(s, token, message) ==
    IF s.panic_mode THEN s
    ELSE [s EXCEPT !.panic_mode = TRUE,
                   !.stderr = Append(@, [line |-> token.line, column |-> token.column,
                                         message |-> message]),
                   !.had_error = TRUE]

error_at_current_token(s, message) ==
    IF ~Running(s) THEN s
    ELSE IF s.current = None THEN Panic(s, "Error borrowing current token")
    ELSE error_at(s, s.current[1], message)

error(s, message) ==
    IF ~Running(s) THEN s
    ELSE IF s.previous = None THEN Panic(s, "Error borrowing previous token")
    ELSE error_at(s, s.previous[1], message)

(***************************************************************************)
(* Token cursor.                                                           *)
(***************************************************************************)
RECURSIVE advance_loop(_)
advance_loop(s) ==
    IF ~Running(s) \/ s.tokpos >= Len(tokens) THEN s
    ELSE LET next_token == tokens[s.tokpos + 1]
             s1 == [s EXCEPT !.tokpos = @ + 1, !.current = Some(next_token)]
         IN  IF next_token.type = "Error"
             THEN advance_loop(error_at_current_token(s1, next_token.str))
             ELSE s1

advance(s) ==
    IF ~Running(s) THEN s
    ELSE advance_loop([s EXCEPT !.previous = s.current])

\* check_token's answer; the expect on current is CheckPanics
check_token(s, t_type) ==
    s.current # None /\ TokenTypeEq(s.current[1].type, t_type)

match_token(s, t_type) ==
    IF ~Running(s) THEN s
    ELSE IF s.current = None
         THEN Panic(s, "Error borrowing next token in parser check!")
    ELSE IF ~check_token(s, t_type) THEN s
    ELSE advance(s)

consume(s, t_type, message) ==
    IF ~Running(s) THEN s
    ELSE IF s.current = None THEN Panic(s, "Error consuming current token!")
    ELSE IF TokenTypeEq(s.current[1].type, t_type) THEN advance(s)
    ELSE error_at_current_token(s, message)

(***************************************************************************)
(* Chunk and constant pool.                                                *)
(***************************************************************************)
chunk_count(s) == Len(s.code)

write_chunk(s, byte, line) ==
    IF ~Running(s) THEN s
    ELSE [s EXCEPT !.code = Append(@, byte), !.lines = Append(@, line)]

write_value_always_pushing(s, value, use_globals) ==
    IF ~Running(s) THEN [s |-> s, ret |-> 0]
    ELSE IF use_globals /\ value.tag = "Object"
    THEN [s |-> [s EXCEPT !.values = Append(@, value),
                          !.global_indices =
                              (value.str :> Len(s.values)) @@
                              [n \in DOMAIN @ \ {value.str} |-> @[n]]],
          ret |-> Len(s.values)]
    ELSE [s |-> [s EXCEPT !.values = Append(@, value)], ret |-> Len(s.values)]

\* Values::write_value: the state after the write and the index it returns.
\* use_globals is whether a global_indices table was passed.
write_value(s, value, use_globals) ==
    IF ~Running(s) THEN [s |-> s, ret |-> 0]
    ELSE IF use_globals /\ value.tag = "Object"
    THEN IF value.str \in DOMAIN s.global_indices
         THEN LET idx == s.global_indices[value.str]
              IN  IF idx >= Len(s.values)
                  THEN [s |-> Panic(s, "Error finding global"), ret |-> idx]
                  ELSE [s |-> s, ret |-> idx]
         ELSE LET index == Len(s.values)
              IN  [s |-> [s EXCEPT !.values = Append(@, value),
                                   !.global_indices = (value.str :> index) @@ @],
                   ret |-> index]
    ELSE [s |-> [s EXCEPT !.values = Append(@, value)], ret |-> Len(s.values)]

add_constant(s, value, line) ==
    LET w == write_value(s, value, FALSE)
    IN  write_chunk(w.s, Op1("OpConstant", w.ret), line)

\* Chunk::add_identifier_constant: the global's constant-pool slot (reused or
\* new) and, for a read or a write, the opcode; a Define only yields the index
\* (define_variable emits the OpDefineGlobal).
add_identifier_constant(s, name, line, variable_op) ==
    LET w == write_value(s, ObjStringValue(name), TRUE)
    IN  [s |-> CASE variable_op = "GetGlobal" ->
                        write_chunk(w.s, Op1("OpGetGlobal", w.ret), line)
                 [] variable_op = "SetGlobal" ->
                        write_chunk(w.s, Op1("OpSetGlobal", w.ret), line)
                 [] OTHER -> w.s,
         ret |-> w.ret]

emit_byte(s, byte) ==
    IF ~Running(s) THEN s
    ELSE IF s.previous = None
         THEN Panic(s, "Error borrowing previous token in emit byte")
    ELSE write_chunk(s, byte, s.previous[1].line)

emit_bytes(s, byte1, byte2) == emit_byte(emit_byte(s, byte1), byte2)

emit_constant(s, value, line) == add_constant(s, value, line)

emit_identifier_constant(s, string_value, line, variable_op) ==
    add_identifier_constant(s, string_value, line, variable_op)

emit_return(s) == emit_byte(s, Op1("OpReturn", 0))

end_compiler(s) == emit_return(s)

\* emit_jump: the state after the write; the offset it returns is JumpOffset
emit_jump(s, instruction) == emit_byte(s, instruction)

JumpOffset(s) == chunk_count(s) - 1

patch_jump_leaving_jump(s, offset, opcode) ==
    IF ~Running(s) \/ opcode # "OpJumpIfFalse" THEN s
    ELSE [s EXCEPT !.code[offset + 1] =
                       Op1("OpJumpIfFalse", chunk_count(s) - offset - 1)]

patch_jump_appending(s, offset, opcode) ==
    IF ~Running(s) THEN s
    ELSE IF opcode \in {"OpJumpIfFalse", "OpJump"}
         THEN [s EXCEPT !.code[offset + 1] = Op1(opcode, chunk_count(s) - offset - 1),
                        !.code = Append(@, Op1(opcode, chunk_count(s) - offset - 1))]
         ELSE s

patch_jump_one_short(s, offset, opcode) ==
    IF ~Running(s) THEN s
    ELSE LET jump == chunk_count(s) - offset - 2
         IN  IF opcode \in {"OpJumpIfFalse", "OpJump"}
             THEN IF offset >= chunk_count(s)
                  THEN Panic(s, "index out of bounds: code[offset]")
                  ELSE [s EXCEPT !.code[offset + 1] = Op1(opcode, jump)]
             ELSE s

patch_jump(s, offset, opcode) ==
    IF ~Running(s) THEN s
    ELSE LET jump == chunk_count(s) - offset - 1
         IN  IF opcode \in {"OpJumpIfFalse", "OpJump"}
             THEN IF offset >= chunk_count(s)
                  THEN Panic(s, "index out of bounds: code[offset]")
                  ELSE [s EXCEPT !.code[offset + 1] = Op1(opcode, jump)]
             ELSE s

U16_MAX == 65535

emit_loop_one_short(s, loop_start) ==
    LET offset == chunk_count(s) - loop_start
        s1 == IF offset > U16_MAX THEN error(s, MsgLoopTooLarge) ELSE s
    IN  emit_byte(s1, Op1("OpLoop", offset))

emit_loop(s, loop_start) ==
    LET offset == chunk_count(s) - loop_start + 1
        s1 == IF offset > U16_MAX THEN error(s, MsgLoopTooLarge) ELSE s
    IN  emit_byte(s1, Op1("OpLoop", offset))

(***************************************************************************)
(* Locals table (frontend/locals.rs).  Slots are indexed from 0.           *)
(***************************************************************************)
Local_default == [name |-> None, depth |-> None]

Local_new(name, depth) == [name |-> Some(name), depth |-> Some(depth)]

Locals_new == [i \in 0 .. LOCALS_COUNT - 1 |-> Local_default]

Locals_size(s) == s.count

initialize_variable(s, depth) ==
    IF ~Running(s) THEN s
    ELSE IF s.count = 0 THEN Panic(s, "attempt to subtract with overflow: count - 1")
    ELSE [s EXCEPT !.locals[s.count - 1].depth = Some(depth)]

Locals_add_local(s, token, depth) ==
    IF ~Running(s) THEN s
    ELSE IF s.count >= LOCALS_COUNT
         THEN Panic(s, "index out of bounds: locals[count]")
    ELSE [s EXCEPT !.locals[s.count] = Local_new(token, depth),
                   !.count = @ + 1]

\* the loop of remove_locals from slot idx down to 0: how many it counts
RECURSIVE remove_locals_from(_, _, _)
remove_locals_from(s, idx, depth) ==
    IF idx < 0 THEN 0
    ELSE LET local == s.locals[idx]
             hit == local.depth # None /\ local.depth[1] > depth
         IN  (IF hit THEN 1 ELSE 0) + remove_locals_from(s, idx - 1, depth)

remove_locals(s, depth) ==
    LET num_locals_removed == remove_locals_from(s, s.count - 1, depth)
    IN  [s |-> IF Running(s) THEN [s EXCEPT !.count = @ - num_locals_removed] ELSE s,
         ret |-> num_locals_removed]

local_is_never_doubly_declared(s, looking_for, depth) == FALSE

RECURSIVE doubly_declared_from(_, _, _, _)
doubly_declared_from(s, idx, looking_for, depth) ==
    IF idx < 0 THEN FALSE
    ELSE LET local == s.locals[idx]
         IN  IF local.depth # None /\ local.depth[1] < depth THEN FALSE
             ELSE IF local.name # None /\ local.name[1].str = looking_for.str
                  THEN TRUE
             ELSE doubly_declared_from(s, idx - 1, looking_for, depth)

local_is_doubly_declared(s, looking_for, depth) ==
    doubly_declared_from(s, s.count - 1, looking_for, depth)

\* resolve_local: <<is_initialized, Option<slot>>>
RECURSIVE resolve_local_from(_, _, _)
resolve_local_from(s, idx, local_id) ==
    IF idx < 0 THEN <<TRUE, None>>
    ELSE LET local == s.locals[idx]
         IN  IF /\ local.name # None
                /\ local.name[1].type = "Identifier"
                /\ local.name[1].str = local_id
             THEN IF local.depth = None THEN <<FALSE, None>>
                  ELSE <<TRUE, Some(idx)>>
             ELSE resolve_local_from(s, idx - 1, local_id)

resolve_local(s, local_id) == resolve_local_from(s, s.count - 1, local_id)

(***************************************************************************)
(* Compiler: scopes and variable declaration.                              *)
(***************************************************************************)
begin_scope(s) ==
    IF ~Running(s) THEN s ELSE [s EXCEPT !.scope_depth = @ + 1]

RECURSIVE emit_pops(_, _)
emit_pops(s, n) == IF n = 0 THEN s ELSE emit_pops(emit_byte(s, Op0("OpPop")), n - 1)

end_scope_keeping_locals(s) ==
    IF ~Running(s) THEN s
    ELSE IF s.scope_depth = 0
         THEN Panic(s, "attempt to subtract with overflow: scope_depth - 1")
    ELSE [s EXCEPT !.scope_depth = @ - 1]

end_scope(s) ==
    IF ~Running(s) THEN s
    ELSE IF s.scope_depth = 0
         THEN Panic(s, "attempt to subtract with overflow: scope_depth - 1")
    ELSE LET s1 == [s EXCEPT !.scope_depth = @ - 1]
             r == remove_locals(s1, s1.scope_depth)
         IN  emit_pops(r.s, r.ret)

add_local_unchecked(s, token) == Locals_add_local(s, token, s.scope_depth)

add_local(s, token) ==
    IF ~Running(s) THEN s
    ELSE IF Locals_size(s) = LOCALS_COUNT THEN error(s, MsgTooManyLocals)
    ELSE Locals_add_local(s, token, s.scope_depth)

declare_variable(s) ==
    IF ~Running(s) \/ s.scope_depth = 0 THEN s
    ELSE IF s.previous = None
         THEN Panic(s, "Error borrowing previous token when declaring local variable.")
    ELSE LET token == s.previous[1]
         IN  IF local_is_doubly_declared(s, token, s.scope_depth)
             THEN error(s, MsgAlreadyDeclared)
             ELSE add_local(s, token)

define_variable_off_by_one(s, index) ==
    IF ~Running(s) THEN s
    ELSE IF s.scope_depth > 0 THEN initialize_variable(s, s.scope_depth)
    ELSE emit_byte(s, Op1("OpDefineGlobal", index + 1))

define_variable(s, index) ==
    IF ~Running(s) THEN s
    ELSE IF s.scope_depth > 0 THEN initialize_variable(s, s.scope_depth)
    ELSE emit_byte(s, Op1("OpDefineGlobal", index))

parse_variable_defining_early(s, msg) ==
    LET s1 == consume(s, "Identifier", msg)
    IN  IF ~Running(s1) \/ s1.previous = None \/ s1.previous[1].type # "Identifier"
        THEN [s |-> Panic(s1, "Error did not find identifier when parsing previous token for variable"),
              ret |-> 0]
        ELSE LET prev == s1.previous[1]
                 s2 == declare_variable(s1)
                 r == emit_identifier_constant(s2, prev.str, prev.line, "Define")
             IN  IF s2.scope_depth > 0 THEN [s |-> s2, ret |-> 0]
                 ELSE [s |-> emit_byte(r.s, Op1("OpDefineGlobal", r.ret)), ret |-> r.ret]

\* parse_variable: the state after it and the constant index it returns
parse_variable(s, msg) ==
    LET s1 == consume(s, "Identifier", msg)
    IN  IF ~Running(s1) THEN [s |-> s1, ret |-> 0]
        ELSE IF s1.previous = None
             THEN [s |-> Panic(s1, "Error borrowing previous token when parsing variable."),
                   ret |-> 0]
        ELSE IF s1.previous[1].type # "Identifier"
             THEN [s |-> Panic(s1, "Error did not find identifier when parsing previous token for variable"),
                   ret |-> 0]
        ELSE LET prev == s1.previous[1]
                 s2 == declare_variable(s1)
             IN  IF s2.scope_depth > 0 THEN [s |-> s2, ret |-> 0]
                 ELSE emit_identifier_constant(s2, prev.str, prev.line, "Define")

(***************************************************************************)
(* Parse rules.  get_rule has no arm for the token kinds in the last CASE  *)
(* branch: there it runs todo!().                                          *)
(***************************************************************************)
Rule(precedence, infix_fn, prefix_fn) ==
    [precedence |-> precedence, infix_fn |-> infix_fn, prefix_fn |-> prefix_fn,
     todo |-> FALSE]

get_rule(token) ==
    LET t == token.type
    IN  CASE t = "And" -> Rule(PrecAnd, Some("and_"), None)
          [] t = "Or" -> Rule(PrecOr, Some("or"), None)
          [] t = "Plus" -> Rule(PrecTerm, Some("binary"), None)
          [] t = "Minus" -> Rule(PrecTerm, Some("binary"), Some("unary"))
          [] t \in {"Star", "Slash"} -> Rule(PrecFactor, Some("binary"), None)
          [] t = "Number" -> Rule(PrecNone, None, Some("number"))
          [] t \in {"True", "False", "Nil"} -> Rule(PrecNone, None, Some("literal"))
          [] t = "Bang" -> Rule(PrecNone, None, Some("unary"))
          [] t \in {"BangEqual", "EqualEqual"} ->
                 Rule(PrecEquality, Some("binary"), None)
          [] t \in {"Greater", "GreaterEqual", "Less", "LessEqual"} ->
                 Rule(PrecComparison, Some("binary"), None)
          [] t = "LeftParen" -> Rule(PrecNone, None, Some("grouping"))
          [] t \in {"RightParen", "Semicolon", "EOF"} -> Rule(PrecNone, None, None)
          [] t = "Identifier" -> Rule(PrecNone, None, Some("variable"))
          [] t = "StringLiteral" -> Rule(PrecNone, None, Some("string"))
          [] OTHER -> [precedence |-> PrecNone, infix_fn |-> None,
                       prefix_fn |-> None, todo |-> TRUE]

(***************************************************************************)
(* Prefix handlers that do not call back into the parser.                  *)
(***************************************************************************)
number(s, num, line) == emit_constant(s, NumberValue(num), line)

string(s, str, line) == emit_constant(s, ObjStringValue(str), line)

literal(s) ==
    IF ~Running(s) THEN s
    ELSE IF s.previous = None THEN Panic(s, "Error borrowing previous token in literal")
    ELSE CASE s.previous[1].type = "True" -> emit_byte(s, Op0("OpTrue"))
           [] s.previous[1].type = "False" -> emit_byte(s, Op0("OpFalse"))
           [] s.previous[1].type = "Nil" -> emit_byte(s, Op0("OpNil"))
           [] OTHER -> s

(***************************************************************************)
(* The call stack.  The top frame is the last element.  A call pushes the  *)
(* callee's frame at pc 0 after moving the caller to the pc at which it    *)
(* resumes; a return pops.                                                 *)
(***************************************************************************)
Top == stack[Len(stack)]

At(fn, pc) == status = "running" /\ stack # <<>> /\ Top.fn = fn /\ Top.pc = pc

Return == SubSeq(stack, 1, Len(stack) - 1)

Goto(frame) == [stack EXCEPT ![Len(stack)] = frame]

Call(frame, callee) == Append(Goto(frame), callee)

Frame(fn) == [fn |-> fn, pc |-> 0]

\* expression() is parse(PrecAssign)
ParseFrame(precedence) ==
    [fn |-> "parse", pc |-> 0, precedence |-> precedence,
     can_assign |-> precedence <= PrecAssign]

\* the step's effect on the compiler's fields; a panic leaves the stack as it is
CommitResult(s, stk, res) ==
    /\ tokpos' = s.tokpos
    /\ previous' = s.previous
    /\ current' = s.current
    /\ had_error' = s.had_error
    /\ panic_mode' = s.panic_mode
    /\ locals' = s.locals
    /\ count' = s.count
    /\ scope_depth' = s.scope_depth
    /\ code' = s.code
    /\ lines' = s.lines
    /\ values' = s.values
    /\ global_indices' = s.global_indices
    /\ stderr' = s.stderr
    /\ status' = s.status
    /\ panic_msg' = s.panic_msg
    /\ stack' = IF s.status = "panicked" THEN stack ELSE stk
    /\ result' = res
    /\ UNCHANGED <<tokens, scanner_vars, value_vars, raw_stack_vars>>

Commit(s, stk) == CommitResult(s, stk, result)

(***************************************************************************)
(* Compiler::compile                                                       *)
(***************************************************************************)
compile ==
    /\ At("compile", 0)
    /\ Commit(advance(St), Goto([Top EXCEPT !.pc = 1]))

compile_loop ==
    /\ At("compile", 1)
    /\ LET at_eof == check_token(St, "EOF")
           s1 == match_token(St, "EOF")
           s2 == end_compiler(s1)
       IN  IF ~at_eof THEN Commit(s1, Call(Top, Frame("declaration")))
           ELSE IF Running(s2)
                THEN CommitResult([s2 EXCEPT !.status = "done"], <<>>,
                                  Some(~s2.had_error))
                ELSE Commit(s2, stack)

(***************************************************************************)
(* declaration, synchronize                                                *)
(***************************************************************************)
declaration ==
    /\ At("declaration", 0)
    /\ LET is_var == check_token(St, "Var")
           s1 == match_token(St, "Var")
       IN  Commit(s1, Call([Top EXCEPT !.pc = 1],
                           IF is_var THEN Frame("var_declaration")
                                     ELSE Frame("statement")))

declaration_exit ==
    /\ At("declaration", 1)
    /\ IF panic_mode
       THEN Commit(St, Call([Top EXCEPT !.pc = 2], Frame("synchronize")))
       ELSE Commit(St, Return)

declaration_return ==
    /\ At("declaration", 2)
    /\ Commit(St, Return)

synchronize ==
    /\ At("synchronize", 0)
    /\ LET s1 == [St EXCEPT !.panic_mode = FALSE]
       IN  IF s1.current = None
           THEN Commit(Panic(s1, "Error borrowing current token while synchronizing compiler"),
                       stack)
           ELSE Commit(s1, Goto([Top EXCEPT !.pc = 1]))

SyncKeywords == {"Class", "Fun", "Var", "For", "If", "While", "Print", "Return"}

synchronize_loop_ignoring_semicolon ==
    /\ At("synchronize", 1)
    /\ IF current[1].type = "EOF" THEN Commit(St, Return)
       ELSE IF previous = None
            THEN Commit(Panic(St, "Error borrowing previous token while synchronizing compiler"),
                        stack)
       ELSE IF current[1].type \in SyncKeywords THEN Commit(St, Return)
       ELSE Commit(advance(St), stack)

\* one test of the while condition and, when it holds, one pass of the body
synchronize_loop ==
    /\ At("synchronize", 1)
    /\ IF current[1].type = "EOF" THEN Commit(St, Return)
       ELSE IF previous = None
            THEN Commit(Panic(St, "Error borrowing previous token while synchronizing compiler"),
                        stack)
       ELSE IF previous[1].type = "Semicolon" THEN Commit(St, Return)
       ELSE IF current[1].type \in SyncKeywords THEN Commit(St, Return)
       ELSE Commit(advance(St), stack)

(***************************************************************************)
(* var_declaration                                                         *)
(***************************************************************************)
var_declaration ==
    /\ At("var_declaration", 0)
    /\ LET r == parse_variable(St, "Expect variable name.")
           has_init == check_token(r.s, "Equal")
           s1 == match_token(r.s, "Equal")
           here == [Top EXCEPT !.pc = 1] @@ [index |-> r.ret]
       IN  IF has_init
           THEN Commit(s1, Call(here, ParseFrame(PrecAssign)))
           ELSE Commit(emit_byte(s1, Op0("OpNil")), Goto(here))

var_declaration_define ==
    /\ At("var_declaration", 1)
    /\ LET s1 == consume(St, "Semicolon", "Expect ';' after variable declaration.")
       IN  Commit(define_variable(s1, Top.index), Return)

(***************************************************************************)
(* statement and the statements.  A call in tail position (statement's     *)
(* calls of print_statement, for_statement, if_statement, while_statement  *)
(* and expression_statement) replaces the caller's frame.                  *)
(***************************************************************************)
statement ==
    /\ At("statement", 0)
    /\ LET t == IF current = None THEN "" ELSE current[1].type
           s1 == IF t \in {"Print", "For", "If", "While", "LeftBrace"}
                 THEN match_token(St, t)
                 ELSE match_token(St, "LeftBrace")
       IN  CASE t = "Print" -> Commit(s1, Goto(Frame("print_statement")))
             [] t = "For" -> Commit(s1, Goto(Frame("for_statement")))
             [] t = "If" -> Commit(s1, Goto(Frame("if_statement")))
             [] t = "While" -> Commit(s1, Goto(Frame("while_statement")))
             [] t = "LeftBrace" ->
                    Commit(begin_scope(s1), Call([Top EXCEPT !.pc = 1], Frame("block")))
             [] OTHER -> Commit(s1, Goto(Frame("expression_statement")))

statement_end_scope ==
    /\ At("statement", 1)
    /\ Commit(end_scope(St), Return)

block ==
    /\ At("block", 0)
    /\ IF current = None
       THEN Commit(Panic(St, "Error borrowing next token in parser check!"), stack)
       ELSE IF ~check_token(St, "RightBrace") /\ ~check_token(St, "EOF")
            THEN Commit(St, Call(Top, Frame("declaration")))
            ELSE Commit(consume(St, "RightBrace", "Expect '}' after block."), Return)

print_statement ==
    /\ At("print_statement", 0)
    /\ Commit(St, Call([Top EXCEPT !.pc = 1], ParseFrame(PrecAssign)))

print_statement_emit ==
    /\ At("print_statement", 1)
    /\ LET s1 == consume(St, "Semicolon", "Expected ';' after value.")
       IN  Commit(emit_byte(s1, Op0("OpPrint")), Return)

expression_statement ==
    /\ At("expression_statement", 0)
    /\ Commit(St, Call([Top EXCEPT !.pc = 1], ParseFrame(PrecAssign)))

expression_statement_emit ==
    /\ At("expression_statement", 1)
    /\ LET s1 == consume(St, "Semicolon", "Expected ';' after expression statement.")
       IN  Commit(emit_byte(s1, Op0("OpPop")), Return)

(***************************************************************************)
(* for_statement                                                           *)
(***************************************************************************)
for_statement ==
    /\ At("for_statement", 0)
    /\ LET s1 == consume(begin_scope(St), "LeftParen", "Expect '(' after 'for'.")
           here == [Top EXCEPT !.pc = 1]
       IN  IF check_token(s1, "Semicolon")
           THEN Commit(match_token(s1, "Semicolon"), Goto(here))
           ELSE IF check_token(s1, "Var")
                THEN Commit(match_token(s1, "Var"), Call(here, Frame("var_declaration")))
                ELSE Commit(s1, Call(here, Frame("expression_statement")))

for_statement_condition ==
    /\ At("for_statement", 1)
    /\ LET here == Top @@ [loop_start |-> chunk_count(St), exit_jump |-> None]
       IN  IF ~check_token(St, "Semicolon")
           THEN Commit(match_token(St, "Semicolon"),
                       Call([here EXCEPT !.pc = 2], ParseFrame(PrecAssign)))
           ELSE Commit(match_token(St, "Semicolon"), Goto([here EXCEPT !.pc = 3]))

for_statement_exit_jump ==
    /\ At("for_statement", 2)
    /\ LET s1 == consume(St, "Semicolon", "Expect ';' after loop condition.")
           s2 == emit_jump(s1, Op0("OpJumpIfFalse"))
           s3 == emit_byte(s2, Op0("OpPop"))
       IN  Commit(s3, Goto([Top EXCEPT !.pc = 3, !.exit_jump = Some(JumpOffset(s2))]))

for_statement_increment ==
    /\ At("for_statement", 3)
    /\ IF ~check_token(St, "RightParen")
       THEN LET s1 == emit_jump(match_token(St, "RightParen"), Op0("OpJump"))
                here == [Top EXCEPT !.pc = 4] @@
                        [body_jump |-> JumpOffset(s1), incr_start |-> chunk_count(s1)]
            IN  Commit(s1, Call(here, ParseFrame(PrecAssign)))
       ELSE Commit(match_token(St, "RightParen"), Goto([Top EXCEPT !.pc = 5]))

for_statement_loop_back ==
    /\ At("for_statement", 4)
    /\ LET s1 == emit_byte(St, Op0("OpPop"))
           s2 == consume(s1, "RightParen", "Expect ')' after for clauses.")
           s3 == emit_loop(s2, Top.loop_start)
           s4 == patch_jump(s3, Top.body_jump, "OpJump")
       IN  Commit(s4, Goto([Top EXCEPT !.pc = 5, !.loop_start = Top.incr_start]))

for_statement_body ==
    /\ At("for_statement", 5)
    /\ Commit(St, Call([Top EXCEPT !.pc = 6], Frame("statement")))

for_statement_end ==
    /\ At("for_statement", 6)
    /\ LET s1 == emit_loop(St, Top.loop_start)
           s2 == IF Top.exit_jump # None
                 THEN emit_byte(patch_jump(s1, Top.exit_jump[1], "OpJumpIfFalse"),
                                Op0("OpPop"))
                 ELSE s1
       IN  Commit(end_scope(s2), Return)

(***************************************************************************)
(* while_statement, if_statement                                           *)
(***************************************************************************)
while_statement ==
    /\ At("while_statement", 0)
    /\ LET here == [Top EXCEPT !.pc = 1] @@ [loop_start |-> chunk_count(St)]
           s1 == consume(St, "LeftParen", "Expect '(' after 'while'.")
       IN  Commit(s1, Call(here, ParseFrame(PrecAssign)))

while_statement_body ==
    /\ At("while_statement", 1)
    /\ LET s1 == consume(St, "RightParen", "Expect ')' after condition.")
           s2 == emit_jump(s1, Op0("OpJumpIfFalse"))
           s3 == emit_jump(s2, Op0("OpPop"))
           here == [Top EXCEPT !.pc = 2] @@ [exit_jump |-> JumpOffset(s2)]
       IN  Commit(s3, Call(here, Frame("statement")))

while_statement_end ==
    /\ At("while_statement", 2)
    /\ LET s1 == emit_loop(St, Top.loop_start)
           s2 == patch_jump(s1, Top.exit_jump, "OpJumpIfFalse")
       IN  Commit(emit_byte(s2, Op0("OpPop")), Return)

if_statement ==
    /\ At("if_statement", 0)
    /\ LET s1 == consume(St, "LeftParen", "Expect '(' after 'if'.")
       IN  Commit(s1, Call([Top EXCEPT !.pc = 1], ParseFrame(PrecAssign)))

if_statement_then ==
    /\ At("if_statement", 1)
    /\ LET s1 == consume(St, "RightParen", "Expect ')' after condition.")
           s2 == emit_jump(s1, Op0("OpJumpIfFalse"))
           s3 == emit_byte(s2, Op0("OpPop"))
           here == [Top EXCEPT !.pc = 2] @@ [then_jump |-> JumpOffset(s2)]
       IN  Commit(s3, Call(here, Frame("statement")))

if_statement_else ==
    /\ At("if_statement", 2)
    /\ LET s1 == emit_jump(St, Op0("OpJump"))
           s2 == patch_jump(s1, Top.then_jump, "OpJumpIfFalse")
           s3 == emit_byte(s2, Op0("OpPop"))
           here == [Top EXCEPT !.pc = 3] @@ [else_jump |-> JumpOffset(s1)]
       IN  IF check_token(s3, "Else")
           THEN Commit(match_token(s3, "Else"), Call(here, Frame("statement")))
           ELSE Commit(match_token(s3, "Else"), Goto(here))

if_statement_end ==
    /\ At("if_statement", 3)
    /\ Commit(patch_jump(St, Top.else_jump, "OpJump"), Return)

(***************************************************************************)
(* Infix and prefix handlers that call back into the parser.               *)
(***************************************************************************)
and_ ==
    /\ At("and_", 0)
    /\ LET s1 == emit_jump(St, Op0("OpJumpIfFalse"))
           s2 == emit_byte(s1, Op0("OpPop"))
           here == [Top EXCEPT !.pc = 1] @@ [end_jump |-> JumpOffset(s1)]
       IN  Commit(s2, Call(here, ParseFrame(PrecAnd)))

and_patch ==
    /\ At("and_", 1)
    /\ Commit(patch_jump(St, Top.end_jump, "OpJumpIfFalse"), Return)

or ==
    /\ At("or", 0)
    /\ LET s1 == emit_jump(St, Op0("OpJumpIfFalse"))
           s2 == emit_jump(s1, Op0("OpJump"))
           s3 == patch_jump(s2, JumpOffset(s1), "OpJumpIfFalse")
           s4 == emit_byte(s3, Op0("OpPop"))
           here == [Top EXCEPT !.pc = 1] @@ [end_jump |-> JumpOffset(s2)]
       IN  Commit(s4, Call(here, ParseFrame(PrecOr)))

or_patch ==
    /\ At("or", 1)
    /\ Commit(patch_jump(St, Top.end_jump, "OpJump"), Return)

grouping ==
    /\ At("grouping", 0)
    /\ Commit(St, Call([Top EXCEPT !.pc = 1], ParseFrame(PrecAssign)))

grouping_close ==
    /\ At("grouping", 1)
    /\ Commit(consume(St, "RightParen", "Expect ')' after expression."), Return)

\* the frame holds id, line and can_assign, the arguments get_rule bound
variable ==
    /\ At("variable", 0)
    /\ LET r == resolve_local(St, Top.id)
           is_initialized == r[1]
           is_local_id == r[2]
           s1 == IF ~is_initialized THEN error(St, MsgOwnInitializer) ELSE St
           assigns == Top.can_assign /\ check_token(s1, "Equal")
           s2 == IF Top.can_assign THEN match_token(s1, "Equal") ELSE s1
           here == [Top EXCEPT !.pc = 1] @@ [local_idx |-> is_local_id]
       IN  IF assigns THEN Commit(s2, Call(here, ParseFrame(PrecAssign)))
           ELSE IF is_local_id # None
                THEN Commit(emit_byte(s2, Op1("OpGetLocal", is_local_id[1])), Return)
                ELSE Commit(add_identifier_constant(s2, Top.id, Top.line, "GetGlobal").s,
                            Return)

variable_assign ==
    /\ At("variable", 1)
    /\ IF Top.local_idx # None
       THEN Commit(emit_byte(St, Op1("OpSetLocal", Top.local_idx[1])), Return)
       ELSE Commit(add_identifier_constant(St, Top.id, Top.line, "SetGlobal").s, Return)

unary ==
    /\ At("unary", 0)
    /\ IF previous = None
       THEN Commit(Panic(St, "Error borrowing previous token in unary"), stack)
       ELSE Commit(St, Call([Top EXCEPT !.pc = 1] @@ [operator_type |-> previous[1]],
                            ParseFrame(PrecUnary)))

unary_emit ==
    /\ At("unary", 1)
    /\ LET t == Top.operator_type.type
       IN  CASE t = "Minus" -> Commit(emit_byte(St, Op0("OpNegate")), Return)
             [] t = "Bang" -> Commit(emit_byte(St, Op0("OpNot")), Return)
             [] OTHER -> Commit(Panic(St, "Error parsing unary expression. Unexpected token type"),
                                stack)

binary_right_associative ==
    /\ At("binary", 0)
    /\ IF previous = None
       THEN Commit(Panic(St, "Error borrowing previous token in binary"), stack)
       ELSE LET rule == get_rule(previous[1])
            IN  IF rule.todo
                THEN Commit(Panic(St, "not yet implemented: Unimplemented token type"), stack)
                ELSE Commit(St, Call([Top EXCEPT !.pc = 1] @@ [operator_type |-> previous[1]],
                                     ParseFrame(rule.precedence)))

binary ==
    /\ At("binary", 0)
    /\ IF previous = None
       THEN Commit(Panic(St, "Error borrowing previous token in binary"), stack)
       ELSE LET rule == get_rule(previous[1])
            IN  IF rule.todo
                THEN Commit(Panic(St, "not yet implemented: Unimplemented token type"), stack)
                ELSE Commit(St, Call([Top EXCEPT !.pc = 1] @@ [operator_type |-> previous[1]],
                                     ParseFrame(get_next(rule.precedence))))

binary_emit ==
    /\ At("binary", 1)
    /\ LET t == Top.operator_type.type
       IN  CASE t = "Plus" -> Commit(emit_byte(St, Op0("OpAdd")), Return)
             [] t = "Minus" -> Commit(emit_byte(St, Op0("OpSubtract")), Return)
             [] t = "Star" -> Commit(emit_byte(St, Op0("OpMultiply")), Return)
             [] t = "Slash" -> Commit(emit_byte(St, Op0("OpDivide")), Return)
             [] t = "BangEqual" ->
                    Commit(emit_bytes(St, Op0("OpEqual"), Op0("OpNot")), Return)
             [] t = "EqualEqual" -> Commit(emit_byte(St, Op0("OpEqual")), Return)
             [] t = "Greater" -> Commit(emit_byte(St, Op0("OpGreater")), Return)
             [] t = "GreaterEqual" ->
                    Commit(emit_bytes(St, Op0("OpLess"), Op0("OpNot")), Return)
             [] t = "Less" -> Commit(emit_byte(St, Op0("OpLess")), Return)
             [] t = "LessEqual" ->
                    Commit(emit_bytes(St, Op0("OpGreater"), Op0("OpNot")), Return)
             [] OTHER -> Commit(Panic(St, "Error parsing binary expression. Unexpected token type"),
                                stack)

(***************************************************************************)
(* parse                                                                   *)
(***************************************************************************)
\* the frame of a prefix or infix handler, with the arguments get_rule bound
HandlerFrame(fn, token, can_assign) ==
    [fn |-> fn, pc |-> 0, can_assign |-> can_assign,
     id |-> token.str, line |-> token.line]

parse ==
    /\ At("parse", 0)
    /\ LET s1 == advance(St)
           prev == s1.previous[1]
           rule == get_rule(prev)
           here == [Top EXCEPT !.pc = 1]
           fn == rule.prefix_fn[1]
       IN  IF s1.previous = None
           THEN Commit(Panic(s1, "Error borrowing previous token in parse"), stack)
           ELSE IF rule.todo
                THEN Commit(Panic(s1, "not yet implemented: Unimplemented token type"), stack)
           ELSE IF rule.prefix_fn # None
                THEN CASE fn = "number" ->
                              Commit(number(s1, prev.num, prev.line), Goto(here))
                       [] fn = "string" ->
                              Commit(string(s1, prev.str, prev.line), Goto(here))
                       [] fn = "literal" -> Commit(literal(s1), Goto(here))
                       [] OTHER ->
                              Commit(s1, Call(here, HandlerFrame(fn, prev, Top.can_assign)))
           ELSE IF prev.type = "EOF" THEN Commit(s1, Return)
           ELSE Commit(error(s1, MsgNoPrefix), Return)

\* one test of the while condition and, when it holds, the body up to the
\* call of the infix handler
parse_infix ==
    /\ At("parse", 1)
    /\ LET rule == get_rule(current[1])
           s1 == advance(St)
           prev == s1.previous[1]
           infix == get_rule(prev)
       IN  IF current = None
           THEN Commit(Panic(St, "called Option::unwrap on a None value"), stack)
           ELSE IF rule.todo
                THEN Commit(Panic(St, "not yet implemented: Unimplemented token type"), stack)
           ELSE IF ~(Top.precedence <= rule.precedence) THEN Commit(St, Return)
           ELSE IF infix.todo
                THEN Commit(Panic(s1, "not yet implemented: Unimplemented token type"), stack)
           ELSE IF infix.infix_fn # None
                THEN Commit(s1, Call([Top EXCEPT !.pc = 2],
                                     HandlerFrame(infix.infix_fn[1], prev, Top.can_assign)))
           ELSE IF prev.type = "EOF" THEN Commit(s1, Return)
           ELSE Commit(error(s1, MsgNoInfix), Return)

\* the end of the loop body, after the infix handler has returned
parse_invalid_target ==
    /\ At("parse", 2)
    /\ LET hit == Top.can_assign /\ check_token(St, "Equal")
           s1 == IF Top.can_assign THEN match_token(St, "Equal") ELSE St
       IN  Commit(IF hit THEN error(s1, MsgInvalidAssign) ELSE s1,
                  Goto([Top EXCEPT !.pc = 1]))

(***************************************************************************)
(* The token sequences compiled.  Every one ends in EOF.                   *)
(***************************************************************************)
Lex(type, str, num) == [type |-> type, str |-> str, num |-> num]

PlainKinds ==
    {"LeftParen", "RightParen", "LeftBrace", "RightBrace", "Comma", "Dot",
     "Minus", "Plus", "Semicolon", "Star", "Slash",
     "Bang", "BangEqual", "Equal", "EqualEqual", "Less", "LessEqual",
     "Greater", "GreaterEqual",
     "And", "Class", "Else", "False", "Fun", "For", "If", "Nil", "Or", "Print",
     "Return", "Super", "This", "True", "Var", "While"}

K(type) == Lex(type, "", 0)
Id(name) == Lex("Identifier", name, 0)
Num(n) == Lex("Number", "", n)
Str(text) == Lex("StringLiteral", text, 0)
Err(msg) == Lex("Error", msg, 0)

AnyLexemes ==
    {K(t) : t \in PlainKinds} \cup
    {Id("a"), Id("b"), Num(1), Str("s"), Err(MsgUnexpectedChar)}

\* all sequences over S of length at most n
RECURSIVE SeqsUpTo(_, _)
SeqsUpTo(S, n) ==
    IF n = 0 THEN {<<>>}
    ELSE LET shorter == SeqsUpTo(S, n - 1)
         IN  shorter \cup {Append(q, x) : q \in shorter, x \in S}

RECURSIVE Concat(_)
Concat(qs) == IF qs = <<>> THEN <<>> ELSE Head(qs) \o Concat(Tail(qs))

Phrases ==
    {<<K("LeftBrace")>>,
     <<K("RightBrace")>>,
     <<K("Var"), Id("a"), K("Semicolon")>>,
     <<K("Var"), Id("b"), K("Semicolon")>>,
     <<K("Var"), Id("a"), K("Equal"), Id("a"), K("Semicolon")>>,
     <<K("LeftBrace"), K("Var"), Id("a"), K("Semicolon"),
       K("Var"), Id("b"), K("Semicolon")>>,
     <<K("Var"), Id("a"), Err(MsgUnexpectedChar), K("Semicolon")>>,
     <<Id("a"), K("Equal"), Num(1), K("Semicolon")>>,
     <<K("Print"), Id("a"), K("Semicolon")>>,
     <<K("RightParen"), K("Semicolon")>>}

\* the examples of an expression followed by an unconsumed `=`
InvalidTargetSources ==
    {<<Id("a"), K("Plus"), Id("b"), K("Equal"), Id("c"), K("Semicolon")>>,
     <<Num(1), K("Equal"), Num(2), K("Semicolon")>>,
     <<K("LeftParen"), Id("a"), K("RightParen"), K("Equal"), Num(1), K("Semicolon")>>}

\* the spec's end-to-end scenarios and the control-flow statements
Scenarios ==
    {<<K("Print"), Num(1), K("Plus"), Num(2), K("Semicolon")>>,
     <<K("Var"), Id("a"), K("Equal"), Num(3), K("Semicolon"),
       K("Print"), Id("a"), K("Semicolon")>>,
     <<K("LeftBrace"), K("Var"), Id("a"), K("Equal"), Num(1), K("Semicolon"),
       K("Print"), Id("a"), K("Semicolon"), K("RightBrace")>>,
     <<K("If"), K("LeftParen"), K("True"), K("RightParen"),
       K("Print"), Num(1), K("Semicolon"),
       K("Else"), K("Print"), Num(2), K("Semicolon")>>,
     <<K("Var"), Id("i"), K("Equal"), Num(0), K("Semicolon"),
       K("While"), K("LeftParen"), Id("i"), K("Less"), Num(3), K("RightParen"),
       Id("i"), K("Equal"), Id("i"), K("Plus"), Num(1), K("Semicolon")>>,
     <<Str("hi"), K("Plus"), Str("bye"), K("Semicolon")>>,
     <<K("For"), K("LeftParen"), K("Var"), Id("i"), K("Equal"), Num(0), K("Semicolon"),
       Id("i"), K("Less"), Num(3), K("Semicolon"),
       Id("i"), K("Equal"), Id("i"), K("Plus"), Num(1), K("RightParen"),
       K("Print"), Id("i"), K("Semicolon")>>,
     <<K("For"), K("LeftParen"), K("Semicolon"), K("Semicolon"), K("RightParen"),
       K("Print"), Num(1), K("Semicolon")>>,
     <<K("Print"), Id("a"), K("And"), Id("b"), K("Or"), K("Bang"), Id("a"),
       K("Semicolon")>>}

\* lexemes become tokens on line 1, column = position, and EOF is appended
TokenVector(lexemes) ==
    [i \in 1 .. Len(lexemes) + 1 |->
        IF i <= Len(lexemes)
        THEN Token(lexemes[i].type, lexemes[i].str, lexemes[i].num, 1, i)
        ELSE Token("EOF", "", 0, 1, i)]

\* two statements in error with a synchronization point between them
RecoverySources ==
    {<<K("RightParen"), K("Semicolon"), K("RightParen")>>,
     <<K("Print"), K("Semicolon"), K("Print"), K("Semicolon")>>}

\* a local shadowed in a nested block, read and assigned inside and outside
ShadowSources ==
    {<<K("LeftBrace"), K("Var"), Id("a"), K("Semicolon"),
       K("LeftBrace"), K("Var"), Id("a"), K("Semicolon"),
       K("Print"), Id("a"), K("Semicolon"),
       Id("a"), K("Equal"), Num(1), K("Semicolon"), K("RightBrace"),
       K("Print"), Id("a"), K("Semicolon"), K("RightBrace")>>}

\* a block that fills a table of two locals, a nested block that declares
\* one more, and a reference to the last local of the outer block
FullTableSource ==
    <<K("LeftBrace"), K("Var"), Id("a"), K("Semicolon"),
      K("Var"), Id("b"), K("Semicolon"),
      K("LeftBrace"), K("Var"), Id("c"), K("Semicolon"), K("RightBrace"),
      K("Print"), Id("b"), K("Semicolon"), K("RightBrace")>>

\* `if (true) print 1; else print 2;`
IfElseSource ==
    <<K("If"), K("LeftParen"), K("True"), K("RightParen"),
      K("Print"), Num(1), K("Semicolon"),
      K("Else"), K("Print"), Num(2), K("Semicolon")>>

\* an if without else, an if nested in a then branch (its else belongs to
\* the inner if), and an if nested in an else branch
IfSources ==
    {<<K("If"), K("LeftParen"), K("True"), K("RightParen"),
       K("Print"), Num(1), K("Semicolon"), K("Print"), Num(2), K("Semicolon")>>,
     <<K("If"), K("LeftParen"), Id("a"), K("RightParen"),
       K("If"), K("LeftParen"), Id("b"), K("RightParen"),
       K("Print"), Num(1), K("Semicolon"),
       K("Else"), K("Print"), Num(2), K("Semicolon")>>,
     <<K("If"), K("LeftParen"), Id("a"), K("RightParen"), K("Semicolon"),
       K("Else"), K("If"), K("LeftParen"), Id("b"), K("RightParen"),
       K("LeftBrace"), K("RightBrace")>>}

\* `var i = 0; while (i < 3) i = i + 1;`
WhileSource ==
    <<K("Var"), Id("i"), K("Equal"), Num(0), K("Semicolon"),
      K("While"), K("LeftParen"), Id("i"), K("Less"), Num(3), K("RightParen"),
      Id("i"), K("Equal"), Id("i"), K("Plus"), Num(1), K("Semicolon")>>

\* a while nested in a while, and a while with an empty block
WhileSources ==
    {<<K("While"), K("LeftParen"), Id("a"), K("RightParen"),
       K("While"), K("LeftParen"), Id("b"), K("RightParen"),
       K("Print"), Num(1), K("Semicolon")>>,
     <<K("While"), K("LeftParen"), K("True"), K("RightParen"),
       K("LeftBrace"), K("RightBrace"), K("Print"), Num(1), K("Semicolon")>>}

\* `for (var i = 0; i < 3; i = i + 1) print i;`
ForSource ==
    <<K("For"), K("LeftParen"), K("Var"), Id("i"), K("Equal"), Num(0), K("Semicolon"),
      Id("i"), K("Less"), Num(3), K("Semicolon"),
      Id("i"), K("Equal"), Id("i"), K("Plus"), Num(1), K("RightParen"),
      K("Print"), Id("i"), K("Semicolon")>>

\* `{ var a; for (var b;;) { var c; } }`: the body declares a local when the
\* table of two is full
ForFullTableSource ==
    <<K("LeftBrace"), K("Var"), Id("a"), K("Semicolon"),
      K("For"), K("LeftParen"), K("Var"), Id("b"), K("Semicolon"),
      K("Semicolon"), K("RightParen"),
      K("LeftBrace"), K("Var"), Id("c"), K("Semicolon"), K("RightBrace"),
      K("RightBrace")>>

\* a condition and no increment, an increment and no condition, a for
\* nested in a for
ForSources ==
    {<<K("For"), K("LeftParen"), K("Semicolon"), Id("a"), K("Semicolon"),
       K("RightParen"), K("Print"), Num(1), K("Semicolon")>>,
     <<K("For"), K("LeftParen"), K("Semicolon"), K("Semicolon"),
       Id("a"), K("Equal"), Num(1), K("RightParen"),
       K("Print"), Num(1), K("Semicolon")>>,
     <<K("For"), K("LeftParen"), K("Var"), Id("a"), K("Semicolon"), K("Semicolon"),
       K("RightParen"),
       K("For"), K("LeftParen"), K("Var"), Id("b"), K("Semicolon"), Id("a"),
       K("Semicolon"), Id("b"), K("RightParen"), K("Print"), Id("b"), K("Semicolon")>>,
     ForFullTableSource}

BinaryOperators ==
    {"Plus", "Minus", "Star", "Slash", "BangEqual", "EqualEqual", "Greater",
     "GreaterEqual", "Less", "LessEqual"}

\* `a o1 b o2 c;`
BinarySource(o1, o2) ==
    <<Id("a"), K(o1), Id("b"), K(o2), Id("c"), K("Semicolon")>>

BinarySources == {BinarySource(o1, o2) : o1, o2 \in BinaryOperators}

\* `) ) @ ; )`: an Error token between a statement in error and the `;` that
\* synchronize skips to, then one more statement in error
ErrorTokenSource ==
    <<K("RightParen"), K("RightParen"), Err(MsgUnexpectedChar), K("Semicolon"),
      K("RightParen")>>

Programs ==
    {TokenVector(q) : q \in SeqsUpTo(AnyLexemes, MaxAnyTokens)} \cup
    {TokenVector(Concat(q)) : q \in SeqsUpTo(Phrases, MaxPhrases)} \cup
    {TokenVector(q) : q \in InvalidTargetSources \cup Scenarios \cup RecoverySources
                                 \cup ShadowSources \cup {FullTableSource}
                                 \cup IfSources \cup WhileSources
                                 \cup ForSources \cup BinarySources
                                 \cup {ErrorTokenSource}}

(***************************************************************************)
(* Specification of the compiler: Compiler::new on one of the programs,    *)
(* then compile().                                                         *)
(***************************************************************************)
\* no Value::eq call and no RawStack exist
ValueIdle ==
    /\ lhs = None
    /\ rhs = None
    /\ eq_ret = None

RawStackIdle ==
    /\ overflow_checks = TRUE
    /\ stack_values = <<>>
    /\ size = 0
    /\ stack_ptr = 0
    /\ stack_ret = [fn |-> "", arg |-> 0, val |-> None]
    /\ stack_status = "idle"

ScannerIdle ==
    /\ source = <<>>
    /\ line_num = 0
    /\ line_chars = 0
    /\ ch = ""
    /\ char_num = 0
    /\ scanned = <<>>
    /\ scan_status = "idle"

Compiler_new ==
    /\ tokpos = 0
    /\ previous = None
    /\ current = None
    /\ had_error = FALSE
    /\ panic_mode = FALSE
    /\ locals = Locals_new
    /\ count = 0
    /\ scope_depth = 0
    /\ code = <<>>
    /\ lines = <<>>
    /\ values = <<>>
    /\ global_indices = [n \in {} |-> 0]
    /\ stderr = <<>>
    /\ panic_msg = ""
    /\ result = None

Init ==
    /\ tokens \in Programs
    /\ Compiler_new
    /\ stack = <<Frame("compile")>>
    /\ status = "running"
    /\ ScannerIdle
    /\ ValueIdle
    /\ RawStackIdle

Next ==
    \/ compile
    \/ compile_loop
    \/ declaration
    \/ declaration_exit
    \/ declaration_return
    \/ synchronize
    \/ synchronize_loop
    \/ var_declaration
    \/ var_declaration_define
    \/ statement
    \/ statement_end_scope
    \/ block
    \/ print_statement
    \/ print_statement_emit
    \/ expression_statement
    \/ expression_statement_emit
    \/ for_statement
    \/ for_statement_condition
    \/ for_statement_exit_jump
    \/ for_statement_increment
    \/ for_statement_loop_back
    \/ for_statement_body
    \/ for_statement_end
    \/ while_statement
    \/ while_statement_body
    \/ while_statement_end
    \/ if_statement
    \/ if_statement_then
    \/ if_statement_else
    \/ if_statement_end
    \/ and_
    \/ and_patch
    \/ or
    \/ or_patch
    \/ grouping
    \/ grouping_close
    \/ variable
    \/ variable_assign
    \/ unary
    \/ unary_emit
    \/ binary
    \/ binary_emit
    \/ parse
    \/ parse_infix
    \/ parse_invalid_target

Spec == Init /\ [][Next]_vars

(***************************************************************************)
(* Scanner::scan_tokens.  The source is a sequence of chars; str::lines    *)
(* splits it at "\n" and yields no final empty line.                       *)
(***************************************************************************)
Digits == {"0", "1", "2", "3", "4", "5", "6", "7", "8", "9"}
Letters == {"a", "b", "x", "A", "Z"}
Whitespace == {" ", "\n", "\t", "\r"}

\* bytes of the char in UTF-8: char_indices counts bytes
Utf8Len(c) == IF c = "U+00E9" THEN 2 ELSE 1

RECURSIVE SplitLines(_, _)
SplitLines(text, line) ==
    IF text = <<>> THEN (IF line = <<>> THEN <<>> ELSE <<line>>)
    ELSE IF Head(text) = "\n" THEN <<line>> \o SplitLines(Tail(text), <<>>)
    ELSE SplitLines(Tail(text), Append(line, Head(text)))

Lines(text) == SplitLines(text, <<>>)

\* the line being scanned and the peeker over it
Line == Lines(source)[line_num + 1]

RECURSIVE ByteOffset(_, _)
ByteOffset(line, n) ==
    IF n = 0 THEN 0 ELSE ByteOffset(line, n - 1) + Utf8Len(line[n])

\* line_chars.peek().unwrap_or(&(0, ' ')).1 after n chars were yielded
Peek(line, n) == IF n < Len(line) THEN line[n + 1] ELSE " "

\* Scanner::check_next: <<token type, chars then yielded>>
check_next(line, n, check, first, second) ==
    IF Peek(line, n) = check THEN <<second, n + 1>> ELSE <<first, n>>

\* index of the first `"` after the n chars yielded, or 0
RECURSIVE ClosingQuote(_, _)
ClosingQuote(line, n) ==
    IF n >= Len(line) THEN 0
    ELSE IF line[n + 1] = "\"" THEN n + 1
    ELSE ClosingQuote(line, n + 1)

\* Scanner::string: <<token type, payload, chars then yielded>>
scan_string(line, n) ==
    LET q == ClosingQuote(line, n)
    IN  IF q = 0 THEN <<"Error", MsgUnterminated, Len(line)>>
        ELSE <<"StringLiteral", SubSeq(line, n + 1, q - 1), q>>

SingleChar(c) ==
    CASE c = "(" -> "LeftParen"
      [] c = ")" -> "RightParen"
      [] c = "{" -> "LeftBrace"
      [] c = "}" -> "RightBrace"
      [] c = "," -> "Comma"
      [] c = "." -> "Dot"
      [] c = "-" -> "Minus"
      [] c = "+" -> "Plus"
      [] c = ";" -> "Semicolon"
      [] c = "*" -> "Star"

scan_token(token_type, str, line, column) == Token(token_type, str, 0, line, column)

ScanCommit(n, c, offset, toks, st) ==
    /\ line_chars' = n
    /\ ch' = c
    /\ char_num' = offset
    /\ scanned' = toks
    /\ scan_status' = st
    /\ UNCHANGED <<source, line_num, compiler_vars, value_vars, raw_stack_vars>>

Push(token_type, str, n, c, offset) ==
    ScanCommit(n, c, offset,
               Append(scanned, scan_token(token_type, str, line_num + 1, offset + 1)),
               "running")

\* one pass of the while loop over the chars of the line
scan_char ==
    /\ scan_status = "running"
    /\ line_num < Len(Lines(source))
    /\ line_chars < Len(Line)
    /\ LET c == Line[line_chars + 1]
           offset == ByteOffset(Line, line_chars)
           n == line_chars + 1
           two(first, second) == check_next(Line, n, "=", first, second)
       IN  CASE c \in {"(", ")", "{", "}", ",", ".", "-", "+", ";", "*"} ->
                    Push(SingleChar(c), "", n, c, offset)
             [] c = "!" -> Push(two("Bang", "BangEqual")[1], "",
                                two("Bang", "BangEqual")[2], c, offset)
             [] c = "=" -> Push(two("Equal", "EqualEqual")[1], "",
                                two("Equal", "EqualEqual")[2], c, offset)
             [] c = ">" -> Push(two("Greater", "GreaterEqual")[1], "",
                                two("Greater", "GreaterEqual")[2], c, offset)
             [] c = "<" -> Push(two("Less", "LessEqual")[1], "",
                                two("Less", "LessEqual")[2], c, offset)
             [] c \in Whitespace -> ScanCommit(n, c, offset, scanned, "running")
             [] c = "/" ->
                    IF Peek(Line, n) = "/"
                    THEN ScanCommit(Len(Line), c, offset, scanned, "running")
                    ELSE Push("Slash", "", n, c, offset)
             [] c = "\"" -> Push(scan_string(Line, n)[1], scan_string(Line, n)[2],
                                 scan_string(Line, n)[3], c, offset)
             [] c \in Digits -> ScanCommit(n, c, offset, scanned, "panicked")
             [] c \in Letters -> ScanCommit(n, c, offset, scanned, "panicked")
             [] OTHER -> Push("Error", MsgUnexpectedChar, n, c, offset)

\* the while loop ends with the line; the for loop takes the next line
scan_next_line ==
    /\ scan_status = "running"
    /\ line_num < Len(Lines(source))
    /\ line_chars = Len(Line)
    /\ line_num' = line_num + 1
    /\ line_chars' = 0
    /\ UNCHANGED <<source, ch, char_num, scanned, scan_status, compiler_vars,
                   value_vars, raw_stack_vars>>

\* the for loop is over: scan_tokens returns the vector
scan_return ==
    /\ scan_status = "running"
    /\ line_num = Len(Lines(source))
    /\ scan_status' = "done"
    /\ UNCHANGED <<source, line_num, line_chars, ch, char_num, scanned, compiler_vars,
                   value_vars, raw_stack_vars>>

SourceChars == {"(", "!", "=", "/", "\"", ";", "1", "a", " ", "\n", "@", "U+00E9"}

Sources == SeqsUpTo(SourceChars, MaxSourceLen)

CompilerIdle ==
    /\ tokens = <<>>
    /\ Compiler_new
    /\ stack = <<>>
    /\ status = "idle"

ScanInit ==
    /\ source \in Sources
    /\ line_num = 0
    /\ line_chars = 0
    /\ ch = ""
    /\ char_num = 0
    /\ scanned = <<>>
    /\ scan_status = "running"
    /\ CompilerIdle
    /\ ValueIdle
    /\ RawStackIdle

ScanNext ==
    \/ scan_char
    \/ scan_next_line
    \/ scan_return

ScanSpec == ScanInit /\ [][ScanNext]_vars

(***************************************************************************)
(* Value: the variants and impl PartialEq for Value.  A Value is a record  *)
(* of its variant tag and payload; the fields a variant lacks are 0 / "".  *)
(***************************************************************************)
BooleanValue(b) == [tag |-> "Boolean", num |-> IF b THEN 1 ELSE 0, str |-> ""]

NilValue == [tag |-> "Nil", num |-> 0, str |-> ""]

ErrorValue == [tag |-> "Error", num |-> 0, str |-> ""]

\* PartialEq::eq(self, other)
Value_eq(self, other) ==
    CASE self.tag = "Number" ->
             IF other.tag = "Number" THEN self.num = other.num ELSE FALSE
      [] self.tag = "Boolean" ->
             IF other.tag = "Boolean" THEN self.num = other.num ELSE FALSE
      [] self.tag = "Nil" -> other.tag = "Nil"
      [] self.tag = "Object" ->
             IF other.tag = "Object" THEN self.str = other.str ELSE FALSE
      [] OTHER -> FALSE

\* one call of v == w
eq ==
    /\ lhs # None
    /\ eq_ret = None
    /\ eq_ret' = Some(Value_eq(lhs[1], rhs[1]))
    /\ UNCHANGED <<lhs, rhs, compiler_vars, scanner_vars, raw_stack_vars>>

SomeValues ==
    {NumberValue(0), NumberValue(1), NumberValue(2),
     BooleanValue(TRUE), BooleanValue(FALSE), NilValue,
     ObjStringValue(""), ObjStringValue("a"), ObjStringValue("b"), ErrorValue}

ValueInit ==
    /\ lhs \in {Some(v) : v \in SomeValues}
    /\ rhs \in {Some(v) : v \in SomeValues}
    /\ eq_ret = None
    /\ tokens = <<>>
    /\ Compiler_new
    /\ stack = <<>>
    /\ status = "idle"
    /\ ScannerIdle
    /\ RawStackIdle

ValueNext == eq

ValueSpec == ValueInit /\ [][ValueNext]_vars

(***************************************************************************)
(* RawStack.  stack_ptr is modelled as the index of the slot it points at  *)
(* (0 is values[0]); it can leave 0 .. STACK_MAX - 1, and a read or write  *)
(* through it there is undefined behaviour: the read yields any            *)
(* Option<Value>, the write leaves the array as it is, or the process      *)
(* dies.  size is a usize: without overflow checks 0 - 1 wraps, and the    *)
(* wrapped value is held as the isize of the same bits (-1 for usize::MAX).*)
(***************************************************************************)
StackValues == {NumberValue(4), NumberValue(5), NumberValue(6)}

Ok(v) == <<"Ok", v>>

\* Err("Cannot pop from empty VM stack!")
EmptyStackErr == <<"Err">>

InArray(idx) == idx \in 0 .. STACK_MAX - 1

\* what *ptr can yield for the slot idx
ReadSlot(idx) ==
    IF InArray(idx) THEN {stack_values[idx]}
    ELSE {None} \cup {Some(v) : v \in StackValues}

\* the values array after *ptr = x for the slot idx
WriteSlot(idx, x) ==
    IF InArray(idx) THEN [stack_values EXCEPT ![idx] = x] ELSE stack_values

StackCommit(vals, sz, ptr, fn, arg, val, st) ==
    /\ stack_values' = vals
    /\ size' = sz
    /\ stack_ptr' = ptr
    /\ stack_ret' = [fn |-> fn, arg |-> arg, val |-> val]
    /\ stack_status' = st
    /\ UNCHANGED <<overflow_checks, compiler_vars, scanner_vars, value_vars>>

\* the access through a pointer outside the array kills the process
Crash(idx, fn, arg) ==
    /\ ~InArray(idx)
    /\ StackCommit(stack_values, size, stack_ptr, fn, arg, None, "crashed")

RawStack_new ==
    /\ stack_values = [i \in 0 .. STACK_MAX - 1 |-> None]
    /\ size = 0
    /\ stack_ptr = 0
    /\ stack_ret = [fn |-> "new", arg |-> 0, val |-> None]

reset_stack ==
    /\ stack_status = "running"
    /\ \/ StackCommit(WriteSlot(stack_ptr, stack_values[0]), 0, stack_ptr,
                      "reset_stack", 0, None, "running")
       \/ Crash(stack_ptr, "reset_stack", 0)

peek ==
    /\ stack_status = "running"
    /\ \E distance \in 0 .. STACK_MAX + 1 :
           LET d == size - distance
               idx == stack_ptr - 1 - distance
           IN  IF d < 0
               THEN StackCommit(stack_values, size, stack_ptr, "peek", distance, None,
                                "panicked")
               ELSE \/ \E val \in ReadSlot(idx) :
                          IF val = None
                          THEN StackCommit(stack_values, size, stack_ptr, "peek",
                                           distance, None, "panicked")
                          ELSE StackCommit(stack_values, size, stack_ptr, "peek",
                                           distance, Ok(val[1]), "running")
                    \/ Crash(idx, "peek", distance)

push ==
    /\ stack_status = "running"
    /\ stack_ptr < STACK_MAX + MaxStray
    /\ \E value \in StackValues :
           IF size = STACK_MAX
           THEN StackCommit(stack_values, size, stack_ptr, "push", value.num, None,
                            "panicked")
           ELSE \/ StackCommit(WriteSlot(stack_ptr, Some(value)), size + 1,
                               stack_ptr + 1, "push", value.num, None, "running")
                \/ Crash(stack_ptr, "push", value.num)

pop_reading_at_stack_ptr ==
    /\ stack_status = "running"
    /\ stack_ptr > 0 - MaxStray
    /\ LET new_ptr == stack_ptr - 1
       IN  \/ \E val \in ReadSlot(stack_ptr) :
                  IF size = 0 /\ overflow_checks
                  THEN StackCommit(stack_values, size, new_ptr, "pop", 0, None,
                                   "panicked")
                  ELSE StackCommit(stack_values, size - 1, new_ptr, "pop", 0,
                                   IF val = None THEN EmptyStackErr ELSE Ok(val[1]), "running")
           \/ Crash(stack_ptr, "pop", 0)

pop ==
    /\ stack_status = "running"
    /\ stack_ptr > 0 - MaxStray
    /\ LET new_ptr == stack_ptr - 1
       IN  \/ \E val \in ReadSlot(new_ptr) :
                  IF size = 0 /\ overflow_checks
                  THEN StackCommit(stack_values, size, new_ptr, "pop", 0, None,
                                   "panicked")
                  ELSE StackCommit(stack_values, size - 1, new_ptr, "pop", 0,
                                   IF val = None THEN EmptyStackErr ELSE Ok(val[1]), "running")
           \/ Crash(new_ptr, "pop", 0)

\* Display for Value, for the numbers the stack holds ("4" for 4.0)
Value_to_string(v) ==
    CASE v.tag = "Number" ->
             CASE v.num = 4 -> "4" [] v.num = 5 -> "5" [] v.num = 6 -> "6"
                  [] OTHER -> "?"
      [] v.tag = "Boolean" -> IF v.num = 1 THEN "true" ELSE "false"
      [] v.tag = "Nil" -> "nil"
      [] v.tag = "Object" -> "Object<" \o v.str \o ">"
      [] OTHER -> "Value<Error>"

\* the pieces pushed to s by the loop of fmt, from index i on
RECURSIVE fmt_loop(_)
fmt_loop(i) ==
    IF i >= size THEN <<>>
    ELSE (IF stack_values[i] # None
          THEN <<Value_to_string(stack_values[i][1])>>
                   \o (IF i < size - 1 THEN <<", ">> ELSE <<>>)
          ELSE <<>>) \o fmt_loop(i + 1)

\* Display for RawStack; values[i] is bounds-checked, so a size outside the
\* array panics
fmt ==
    /\ stack_status = "running"
    /\ IF size \in 0 .. STACK_MAX
       THEN StackCommit(stack_values, size, stack_ptr, "fmt", 0,
                        Ok(<<"[">> \o fmt_loop(0) \o <<"]">>), "running")
       ELSE StackCommit(stack_values, size, stack_ptr, "fmt", 0, None, "panicked")

StackInit ==
    /\ overflow_checks \in BOOLEAN
    /\ RawStack_new
    /\ stack_status = "running"
    /\ tokens = <<>>
    /\ Compiler_new
    /\ stack = <<>>
    /\ status = "idle"
    /\ ScannerIdle
    /\ ValueIdle

StackNext ==
    \/ reset_stack
    \/ peek
    \/ push
    \/ pop
    \/ fmt

StackSpec == StackInit /\ [][StackNext]_vars

(***************************************************************************)
(* One compilation: scan_tokens on a source text, then Compiler::new and   *)
(* compile on the vector it returned.  The scanner produces no keyword,    *)
(* identifier or number token, so the handlers of those never run here.    *)
(* A recursion or a chunk that grows without bound ends when the stack or  *)
(* the allocator gives out.                                                *)
(***************************************************************************)
PipelineChars == {"(", ")", "{", "}", ";", "!", "+", "=", "\"", "@", "a", " "}

PipelineSources == SeqsUpTo(PipelineChars, MaxSourceLen)

\* Compiler::new on the returned vector, then compile()
compile_scanned ==
    /\ scan_status = "done"
    /\ status = "idle"
    /\ tokens' = scanned
    /\ stack' = <<Frame("compile")>>
    /\ status' = "running"
    /\ UNCHANGED <<tokpos, previous, current, had_error, panic_mode, locals, count,
                   scope_depth, code, lines, values, global_indices, stderr,
                   panic_msg, result, scanner_vars, value_vars, raw_stack_vars>>

WithinLimits == Len(stack) <= MaxCallDepth /\ Len(code) <= MaxCodeLen

\* stack overflow or allocation failure: the process is killed
abort ==
    /\ status = "running"
    /\ ~WithinLimits
    /\ status' = "crashed"
    /\ UNCHANGED <<tokens, tokpos, previous, current, had_error, panic_mode, locals,
                   count, scope_depth, code, lines, values, global_indices, stderr,
                   panic_msg, result, stack, scanner_vars, value_vars, raw_stack_vars>>

PipelineInit ==
    /\ source \in PipelineSources
    /\ line_num = 0
    /\ line_chars = 0
    /\ ch = ""
    /\ char_num = 0
    /\ scanned = <<>>
    /\ scan_status = "running"
    /\ CompilerIdle
    /\ ValueIdle
    /\ RawStackIdle

PipelineNext ==
    \/ scan_char
    \/ scan_next_line
    \/ scan_return
    \/ compile_scanned
    \/ abort
    \/ WithinLimits /\ compile
    \/ WithinLimits /\ compile_loop
    \/ WithinLimits /\ declaration
    \/ WithinLimits /\ declaration_exit
    \/ WithinLimits /\ declaration_return
    \/ WithinLimits /\ synchronize
    \/ WithinLimits /\ synchronize_loop
    \/ WithinLimits /\ statement
    \/ WithinLimits /\ statement_end_scope
    \/ WithinLimits /\ block
    \/ WithinLimits /\ expression_statement
    \/ WithinLimits /\ expression_statement_emit
    \/ WithinLimits /\ grouping
    \/ WithinLimits /\ grouping_close
    \/ WithinLimits /\ unary
    \/ WithinLimits /\ unary_emit
    \/ WithinLimits /\ binary
    \/ WithinLimits /\ binary_emit
    \/ WithinLimits /\ parse
    \/ WithinLimits /\ parse_infix
    \/ WithinLimits /\ parse_invalid_target

\* the loops run on: every step that can change the state is taken
PipelineSpec == PipelineInit /\ [][PipelineNext]_vars /\ WF_vars(PipelineNext)

(***************************************************************************)
(* Effect of the opcodes on the height of the VM's value stack.  Locals    *)
(* live on that stack at their slot number; code positions count from 1.   *)
(***************************************************************************)
\* values an opcode needs on the stack
StackNeed(o) ==
    IF o.op \in {"OpEqual", "OpGreater", "OpLess", "OpAdd", "OpSubtract",
                 "OpMultiply", "OpDivide"} THEN 2
    ELSE IF o.op \in {"OpPop", "OpPrint", "OpDefineGlobal", "OpSetLocal",
                      "OpSetGlobal", "OpNot", "OpNegate", "OpJumpIfFalse"} THEN 1
    ELSE 0

\* change of the height: an assignment and a JumpIfFalse leave their operand
StackEffect(o) ==
    IF o.op \in {"OpConstant", "OpNil", "OpTrue", "OpFalse", "OpGetLocal",
                 "OpGetGlobal"} THEN 1
    ELSE IF o.op \in {"OpPop", "OpPrint", "OpDefineGlobal", "OpEqual", "OpGreater",
                      "OpLess", "OpAdd", "OpSubtract", "OpMultiply", "OpDivide"} THEN -1
    ELSE 0

\* positions control can move to from pc; a jump not yet patched has no target
NextPcs(c, pc) ==
    LET o == c[pc]
    IN  IF o.op = "OpReturn" THEN {}
        ELSE IF o.op = "OpJump"
             THEN IF o.arg = None THEN {} ELSE {pc + 1 + o.arg[1]}
        ELSE IF o.op = "OpJumpIfFalse"
             THEN IF o.arg = None THEN {pc + 1} ELSE {pc + 1, pc + 1 + o.arg[1]}
        ELSE IF o.op = "OpLoop" THEN {pc + 1 - o.arg[1]}
        ELSE {pc + 1}

\* the opcode at cf[1] can run with cf[2] values on the stack
Runs(c, cf) ==
    LET o == c[cf[1]]
    IN  /\ cf[2] >= StackNeed(o)
        /\ o.op \in {"OpGetLocal", "OpSetLocal"} => o.arg[1] < cf[2]
        /\ o.op = "OpReturn" => cf[2] = 0

VmStep(c, cf) ==
    IF cf[1] \notin 1 .. Len(c) \/ cf[2] > Len(c) \/ ~Runs(c, cf) THEN {}
    ELSE {<<pc, cf[2] + StackEffect(c[cf[1]])>> : pc \in NextPcs(c, cf[1])}

RECURSIVE VmExplore(_, _, _)
VmExplore(c, seen, frontier) ==
    IF frontier = {} THEN seen
    ELSE LET next == UNION {VmStep(c, cf) : cf \in frontier}
         IN  VmExplore(c, seen \cup frontier, next \ (seen \cup frontier))

\* every <<position, height>> some run of the code from an empty stack reaches
VmReach(c) == VmExplore(c, {}, {<<1, 0>>})

(***************************************************************************)
(* Properties.                                                             *)
(***************************************************************************)
Last(q) == q[Len(q)]

Reported(message) == \E i \in 1 .. Len(stderr) : stderr[i].message = message

IsJump(byte) == byte.op \in {"OpJump", "OpJumpIfFalse"}

\* C1: for every token sequence ending in EOF compile() runs to completion:
\* no diagnostic and no unexpected token aborts it.
CompileNeverAborts == status # "panicked"

\* C2: the vector scan_tokens returns is non-empty, its last token is EOF and
\* no EOF token occurs before the last position.
ScanEndsInEOF ==
    scan_status = "done" =>
        /\ scanned # <<>>
        /\ Last(scanned).type = "EOF"
        /\ \A i \in 1 .. Len(scanned) - 1 : scanned[i].type # "EOF"

\* C3: compile() returns false exactly when a diagnostic was reported: every
\* diagnostic written sets had_error, had_error is never reset, and the value
\* returned is the negation of had_error.
ReturnsNotHadError ==
    /\ [](had_error <=> stderr # <<>>)
    /\ [](IF status = "done" THEN result = Some(~had_error) ELSE result = None)
    /\ [][had_error => had_error']_vars

ReturnedFalseAfterDiagnostics ==
    /\ status = "done"
    /\ result = Some(FALSE)
    /\ Len(stderr) >= 2

\* C4: while panic_mode is set no diagnostic is written; writing one sets
\* panic_mode, and only synchronize clears it: at most one diagnostic is
\* written between two consecutive calls of synchronize.
PanicModeSuppresses ==
    [][/\ panic_mode => stderr' = stderr
       /\ stderr' # stderr =>
              /\ Len(stderr') = Len(stderr) + 1
              /\ SubSeq(stderr', 1, Len(stderr)) = stderr
              /\ panic_mode'
       /\ (panic_mode /\ ~panic_mode') => At("synchronize", 0)]_vars

\* in panic mode after a second diagnostic, with consume about to fail
SuppressedAfterSecondDiagnostic ==
    /\ At("expression_statement", 1)
    /\ panic_mode
    /\ Len(stderr) = 2
    /\ current[1].type # "Semicolon"

\* C5: a digit sequence is scanned to a Number token and a word to an
\* Identifier or keyword token, placed at the column of its first char, and
\* scanning continues with the chars that follow.
ScansNumbersAndWords ==
    /\ scan_status # "panicked"
    /\ ch \in Digits =>
           /\ scanned # <<>>
           /\ Last(scanned).type = "Number"
           /\ Last(scanned).column = char_num + 1
    /\ ch \in Letters =>
           /\ scanned # <<>>
           /\ Last(scanned).type \in {"Identifier", "And", "Class", "Else", "False",
                                      "For", "Fun", "If", "Nil", "Or", "Print",
                                      "Return", "Super", "This", "True", "Var",
                                      "While"}
           /\ Last(scanned).column = char_num + 1

\* the jump offsets a frame has emitted and not yet patched
PendingJumps(frame) ==
    CASE frame.fn = "if_statement" /\ frame.pc = 2 -> {frame.then_jump}
      [] frame.fn = "if_statement" /\ frame.pc = 3 -> {frame.else_jump}
      [] frame.fn = "while_statement" /\ frame.pc = 2 -> {frame.exit_jump}
      [] frame.fn = "for_statement" /\ frame.pc \in {3, 5, 6} ->
             {frame.exit_jump[i] : i \in 1 .. Len(frame.exit_jump)}
      [] frame.fn = "for_statement" /\ frame.pc = 4 ->
             {frame.exit_jump[i] : i \in 1 .. Len(frame.exit_jump)} \cup
             {frame.body_jump}
      [] frame.fn \in {"and_", "or"} /\ frame.pc = 1 -> {frame.end_jump}
      [] OTHER -> {}

\* C6: a patched Jump or JumpIfFalse carries a non-negative delta; an
\* unpatched one exists only while the frame that emitted it has still to
\* patch it; none is left when compile() returns.
JumpsPatched ==
    /\ \A i \in 1 .. Len(code) :
           (IsJump(code[i]) /\ code[i].arg # None) => code[i].arg[1] >= 0
    /\ status = "running" =>
           {i - 1 : i \in {j \in 1 .. Len(code) : IsJump(code[j]) /\ code[j].arg = None}}
               = UNION {PendingJumps(stack[k]) : k \in 1 .. Len(stack)}
    /\ status = "done" =>
           \A i \in 1 .. Len(code) : IsJump(code[i]) => code[i].arg # None

ReturnedWithPatchedJumps ==
    /\ status = "done"
    /\ had_error
    /\ \E i \in 1 .. Len(code) : code[i].op = "OpJump" /\ code[i].arg # None
    /\ \E i \in 1 .. Len(code) : code[i].op = "OpJumpIfFalse" /\ code[i].arg # None

\* var_declaration is about to declare the current identifier as a local
DeclaresLocal ==
    /\ At("var_declaration", 0)
    /\ current # None
    /\ current[1].type = "Identifier"
    /\ scope_depth > 0

SameNameAt(i, name) ==
    /\ locals[i].name # None
    /\ locals[i].name[1].str = name

\* the name is already declared in the current scope / only in enclosing ones
RedeclaresInScope ==
    /\ DeclaresLocal
    /\ \E i \in 0 .. count - 1 :
           SameNameAt(i, current[1].str) /\ locals[i].depth = Some(scope_depth)

DeclaresFresh ==
    /\ DeclaresLocal
    /\ ~RedeclaresInScope

ShadowsOuter ==
    /\ DeclaresFresh
    /\ \E i \in 0 .. count - 1 :
           /\ SameNameAt(i, current[1].str)
           /\ locals[i].depth # None
           /\ locals[i].depth[1] < scope_depth

\* no diagnostic is pending when declare_variable runs: panic_mode is clear
\* and consuming the name meets no scanner Error token
Unsuppressed ==
    /\ ~panic_mode
    /\ tokens[tokpos + 1].type # "Error"

ReportsNow(message) ==
    /\ Len(stderr') = Len(stderr) + 1
    /\ Last(stderr').message = message

\* C7 as claimed: the count never exceeds LOCALS_COUNT, and a declaration on
\* a full table always reports MsgTooManyLocals, adds no slot and sets
\* had_error.
FullTableAlwaysReports ==
    /\ [](count <= LOCALS_COUNT)
    /\ [][(DeclaresFresh /\ count = LOCALS_COUNT) =>
              /\ count' = count
              /\ had_error'
              /\ ReportsNow(MsgTooManyLocals)]_vars

\* C7, amended: the count never exceeds LOCALS_COUNT; a declaration on a full
\* table adds no slot and leaves had_error set; it reports MsgTooManyLocals
\* unless panic_mode is set when add_local runs (the message is suppressed).
FullTableReportsUnlessSuppressed ==
    /\ [](count <= LOCALS_COUNT)
    /\ [][(DeclaresFresh /\ count = LOCALS_COUNT) =>
              /\ count' = count
              /\ locals' = locals
              /\ had_error'
              /\ status' = "running"
              /\ Unsuppressed => ReportsNow(MsgTooManyLocals)]_vars

TooManyLocalsReported ==
    /\ count = LOCALS_COUNT
    /\ stderr # <<>>
    /\ Last(stderr).message = MsgTooManyLocals

NoDuplicateInScope ==
    \A i, j \in 0 .. count - 1 :
        (i < j /\ locals[i].name # None /\ locals[j].name # None
               /\ locals[i].name[1].str = locals[j].name[1].str)
            => locals[i].depth # locals[j].depth

OwnInitializerSources ==
    {<<K("LeftBrace"), K("Var"), Id("a"), K("Equal"), Id("a"), K("Semicolon"),
       K("RightBrace")>>,
     <<K("LeftBrace"), K("Var"), Id("a"), K("Equal"), Id("a"), K("Semicolon")>>}

\* C9: a local is inserted with depth absent, and compiling `var x = x;` at
\* scope depth > 0 reports MsgOwnInitializer and compile() returns false.
OwnInitializerRejected ==
    /\ [][count' = count + 1 => locals'[count].depth = None]_vars
    /\ []((tokens \in {TokenVector(q) : q \in OwnInitializerSources}
              /\ status = "done")
             => (result = Some(FALSE) /\ Reported(MsgOwnInitializer)))

\* C10: an expression that is no assignment target followed by an unconsumed
\* `=` is reported as MsgInvalidAssign and compile() returns false.
InvalidTargetReported ==
    tokens \in {TokenVector(q) : q \in InvalidTargetSources} =>
        /\ status # "panicked"
        /\ status = "done" => (result = Some(FALSE) /\ Reported(MsgInvalidAssign))

\* a step that runs end_scope: the end of a block or of a for statement
EndsScope == At("statement", 1) \/ At("for_statement", 6)

\* the slots end_scope has to remove: the locals of the scope that ends
LocalsOfEndingScope ==
    {i \in 0 .. count - 1 :
        locals[i].depth # None /\ locals[i].depth[1] >= scope_depth}

\* C11: a live local keeps the depth of the scope that declared it; end_scope
\* removes exactly the locals of the scope that ends, emits one Pop for each
\* of them, and afterwards no local is deeper than scope_depth.
EndScopePopsItsLocals ==
    /\ [][\A i \in 0 .. count - 1 : i < count' => locals'[i] = locals[i]]_vars
    /\ [][(EndsScope /\ status' = "running") =>
              /\ scope_depth' = scope_depth - 1
              /\ count' = count - Cardinality(LocalsOfEndingScope)
              /\ Len(code') >= Len(code) + (count - count')
              /\ \A k \in 1 .. count - count' :
                     code'[Len(code') + 1 - k] = Op0("OpPop")]_vars
    /\ [](\A i \in 0 .. count - 1 :
              locals[i].depth # None /\ locals[i].depth[1] <= scope_depth)

\* variable is about to read, variable_assign to write, and var_declaration
\* to declare the global called name
ReadsGlobal(name) ==
    /\ At("variable", 0)
    /\ Top.id = name
    /\ resolve_local(St, name)[2] = None
    /\ ~(Top.can_assign /\ check_token(St, "Equal"))

AssignsGlobal(name) ==
    /\ At("variable", 1)
    /\ Top.id = name
    /\ Top.local_idx = None

DeclaresGlobal(name) ==
    /\ At("var_declaration", 0)
    /\ scope_depth = 0
    /\ current # None
    /\ current[1].type = "Identifier"
    /\ current[1].str = name

UsesGlobal(name) == ReadsGlobal(name) \/ AssignsGlobal(name) \/ DeclaresGlobal(name)

Names == {"a", "b", "c", "i"}

\* C12: the index recorded for a global name never changes and no two names
\* share one; the first use of a name appends it to the pool and records the
\* index, a later use leaves the pool as it is; a read, an assignment and a
\* declaration of the name all carry the recorded index.
GlobalsShareIndex ==
    /\ [](\A n, m \in DOMAIN global_indices :
              global_indices[n] = global_indices[m] => n = m)
    /\ [][\A n \in DOMAIN global_indices :
              n \in DOMAIN global_indices' /\ global_indices'[n] = global_indices[n]]_vars
    /\ [][\A n \in Names : (UsesGlobal(n) /\ status' = "running") =>
              /\ n \in DOMAIN global_indices'
              /\ IF n \in DOMAIN global_indices
                 THEN values' = values
                 ELSE /\ values' = Append(values, ObjStringValue(n))
                      /\ global_indices'[n] = Len(values)
              /\ ReadsGlobal(n) =>
                     code' = Append(code, Op1("OpGetGlobal", global_indices'[n]))
              /\ AssignsGlobal(n) =>
                     code' = Append(code, Op1("OpSetGlobal", global_indices'[n]))
              /\ DeclaresGlobal(n) =>
                     stack'[Len(stack)].index = global_indices'[n]]_vars
    /\ [][(At("var_declaration", 1) /\ scope_depth = 0 /\ status' = "running") =>
              code' = Append(code, Op1("OpDefineGlobal", Top.index))]_vars

\* `var a; var a; print a;` and the like: two declarations and a read of one
\* global compiled to the same index, with one constant in the pool
GlobalDeclaredTwiceAndRead ==
    /\ status = "done"
    /\ ~had_error
    /\ Len(values) = 1
    /\ \E i, j, k \in 1 .. Len(code) :
           /\ i < j
           /\ code[i] = Op1("OpDefineGlobal", 0)
           /\ code[j] = Op1("OpDefineGlobal", 0)
           /\ code[k] = Op1("OpGetGlobal", 0)

IsGlobalOp(byte) == byte.op \in {"OpDefineGlobal", "OpGetGlobal", "OpSetGlobal"}

\* C13: the operand of every DefineGlobal, GetGlobal and SetGlobal is inside
\* the constant pool, the constant there is the string of a global's name and
\* global_indices maps that name to the operand; constants are never changed
\* or removed once written.
GlobalOpsReferToNames ==
    /\ [](\A i \in 1 .. Len(code) : IsGlobalOp(code[i]) =>
              /\ code[i].arg # None
              /\ code[i].arg[1] < Len(values)
              /\ \E n \in DOMAIN global_indices :
                     /\ global_indices[n] = code[i].arg[1]
                     /\ values[code[i].arg[1] + 1] = ObjStringValue(n))
    /\ [][/\ Len(values') >= Len(values)
          /\ SubSeq(values', 1, Len(values)) = values]_vars

\* a finished compilation that defines, reads and writes a global, with
\* other constants in the pool as well
DefinedReadAndWritten ==
    /\ status = "done"
    /\ \E i, j, k \in 1 .. Len(code) :
           /\ code[i].op = "OpDefineGlobal"
           /\ code[j].op = "OpGetGlobal"
           /\ code[k].op = "OpSetGlobal"
    /\ Len(values) > Cardinality(DOMAIN global_indices)

\* C14: code and lines have the same length in every state; both only grow
\* by appending, and the one in-place change of code is the patch of a jump
\* that was unpatched, which changes no length.
CodeAndLinesInStep ==
    /\ [](Len(code) = Len(lines))
    /\ [][/\ Len(code') >= Len(code)
          /\ SubSeq(lines', 1, Len(lines)) = lines
          /\ \A i \in 1 .. Len(code) :
                 \/ code'[i] = code[i]
                 \/ /\ IsJump(code[i])
                    /\ code[i].arg = None
                    /\ code'[i].op = code[i].op
                    /\ code'[i].arg # None]_vars

\* a compilation without errors that patched a jump in the middle of the code
ReturnedWithJumpInTheMiddle ==
    /\ status = "done"
    /\ ~had_error
    /\ Len(lines) >= 8
    /\ \E i \in 2 .. Len(code) - 2 : IsJump(code[i]) /\ code[i].arg # None

\* `var a = 3; print a;`
GlobalDeclarationSource ==
    <<K("Var"), Id("a"), K("Equal"), Num(3), K("Semicolon"),
      K("Print"), Id("a"), K("Semicolon")>>

CountOps(op) == Cardinality({i \in 1 .. Len(code) : code[i].op = op})

CountTokens(type) == Cardinality({i \in 1 .. Len(tokens) : tokens[i].type = type})

SlotsNamed(name) ==
    {i \in 0 .. count - 1 : locals[i].name # None /\ locals[i].name[1].str = name}

Innermost(name) == CHOOSE i \in SlotsNamed(name) : \A j \in SlotsNamed(name) : j <= i

\* variable is about to compile a reference to name
RefersTo(name) == At("variable", 0) /\ Top.id = name

\* `{ var a = 1; print a; }`
LocalDeclarationSource ==
    <<K("LeftBrace"), K("Var"), Id("a"), K("Equal"), Num(1), K("Semicolon"),
      K("Print"), Id("a"), K("Semicolon"), K("RightBrace")>>

\* C16: a reference to a name that the locals table holds is compiled to
\* GetLocal, or SetLocal after the assigned expression, of the topmost slot
\* with that name; a reference to any other name is compiled to GetGlobal or
\* SetGlobal of the name's constant; the end of a local declaration emits
\* nothing; `{ var a = 1; print a; }` compiles to Constant(0) GetLocal(0)
\* Print Pop Return(0); and a local is referred to as a local for as long as
\* its block is open: in `{ var a; var b; { var c; } print b; }` the
\* reference to b is GetLocal(1) and no global is read.
ReferenceResolvesInnermost ==
    /\ [][\A n \in Names : (RefersTo(n) /\ status' = "running") =>
              LET assigns == Len(stack') > Len(stack)
                  target == IF SlotsNamed(n) = {} THEN None ELSE Some(Innermost(n))
              IN  /\ assigns => (code' = code /\ stack'[Len(stack)].local_idx = target)
                  /\ (~assigns /\ target # None) =>
                         code' = Append(code, Op1("OpGetLocal", target[1]))
                  /\ (~assigns /\ target = None) =>
                         code' = Append(code, Op1("OpGetGlobal", global_indices'[n]))]_vars
    /\ [][\A n \in Names : (AssignsGlobal(n) /\ status' = "running") =>
              code' = Append(code, Op1("OpSetGlobal", global_indices'[n]))]_vars
    /\ [][(At("variable", 1) /\ Top.local_idx # None /\ status' = "running") =>
              /\ Top.local_idx[1] = Innermost(Top.id)
              /\ code' = Append(code, Op1("OpSetLocal", Top.local_idx[1]))]_vars
    /\ [][(At("var_declaration", 1) /\ scope_depth > 0 /\ status' = "running") =>
              code' = code]_vars
    /\ []((status = "done" /\ tokens = TokenVector(LocalDeclarationSource)) =>
              /\ code = <<Op1("OpConstant", 0), Op1("OpGetLocal", 0), Op0("OpPrint"),
                          Op0("OpPop"), Op1("OpReturn", 0)>>
              /\ result = Some(TRUE))
    /\ []((status = "done" /\ tokens = TokenVector(FullTableSource)) =>
              /\ CountOps("OpGetGlobal") = 0
              /\ \E i \in 1 .. Len(code) : code[i] = Op1("OpGetLocal", 1))

\* the chars scan_tokens has a match arm for
Recognized ==
    {"(", ")", "{", "}", ",", ".", "-", "+", ";", "*", "!", "=", ">", "<", "/", "\""}
        \cup Whitespace \cup Digits \cup Letters

\* the while loop is about to take a char that no match arm names
AtUnexpectedChar ==
    /\ scan_status = "running"
    /\ line_num < Len(Lines(source))
    /\ line_chars < Len(Line)
    /\ Line[line_chars + 1] \notin Recognized

IsUnexpectedCharError(token) ==
    token.type = "Error" /\ token.str = MsgUnexpectedChar

\* C17: a char without a match arm appends one Error token with
\* MsgUnexpectedChar at the char's line and column and the loop goes on with
\* the next char; once such a token is produced the scan does not stop
\* before the end of the source, so the tokens that follow are produced.
UnexpectedCharDoesNotStop ==
    /\ [][AtUnexpectedChar =>
              /\ scanned' = Append(scanned,
                                   Token("Error", MsgUnexpectedChar, 0, line_num + 1,
                                         ByteOffset(Line, line_chars) + 1))
              /\ line_chars' = line_chars + 1
              /\ scan_status' = "running"]_vars
    /\ []((\E i \in 1 .. Len(scanned) : IsUnexpectedCharError(scanned[i]))
             => scan_status # "panicked")

\* the two-char operators and the token of their first char alone
TwoCharOperators ==
    [c \in {"!", "=", ">", "<"} |->
        CASE c = "!" -> <<"Bang", "BangEqual">>
          [] c = "=" -> <<"Equal", "EqualEqual">>
          [] c = ">" -> <<"Greater", "GreaterEqual">>
          [] c = "<" -> <<"Less", "LessEqual">>]

PositionBefore(a, b) ==
    a.line < b.line \/ (a.line = b.line /\ a.column <= b.column)

\* C18: a token carries the 1-based line and the 1-based column of its first
\* char, counted in chars of the line; an operator char followed by `=` is
\* scanned as the two-char operator, placed at its first char; a string
\* literal is placed at its opening quote; the tokens are in non-decreasing
\* order of (line, column).
TokensCarryPosition ==
    /\ [][Len(scanned') = Len(scanned) + 1 =>
              /\ Last(scanned').line = line_num + 1
              /\ Last(scanned').column = line_chars + 1
              /\ Line[line_chars + 1] = "\"" =>
                     Last(scanned').type \in {"StringLiteral", "Error"}
              /\ Line[line_chars + 1] \in DOMAIN TwoCharOperators =>
                     IF Peek(Line, line_chars + 1) = "="
                     THEN /\ Last(scanned').type =
                                 TwoCharOperators[Line[line_chars + 1]][2]
                          /\ line_chars' = line_chars + 2
                     ELSE /\ Last(scanned').type =
                                 TwoCharOperators[Line[line_chars + 1]][1]
                          /\ line_chars' = line_chars + 1]_vars
    /\ [](\A i, j \in 1 .. Len(scanned) :
              i < j => PositionBefore(scanned[i], scanned[j]))

\* C19: v == w is true exactly when v and w are the same variant with equal
\* payloads, for every pair of Values, the order of the operands makes no
\* difference, and every Value equals itself.
ValueEqualityIsStructural ==
    eq_ret # None =>
        /\ eq_ret[1] = (lhs[1] = rhs[1])
        /\ eq_ret[1] = Value_eq(rhs[1], lhs[1])
        /\ Value_eq(lhs[1], lhs[1])

\* C20: peek(distance) with distance >= size returns no value: the call
\* panics; so does peek(3) on a stack of size 3.
PeekBeyondSizeFails ==
    (stack_ret.fn = "peek" /\ stack_ret.arg >= size) =>
        /\ stack_ret.val = None
        /\ stack_status = "panicked"

\* the slots below size hold values and stack_ptr points at slot size
WellFormed ==
    /\ size \in 0 .. STACK_MAX
    /\ stack_ptr = size
    /\ \A i \in 0 .. size - 1 : stack_values[i] # None

\* the live values, bottom to top
Contents == [i \in 1 .. size |-> stack_values[i - 1][1]]

RECURSIVE Joined(_)
Joined(c) ==
    IF c = <<>> THEN <<>>
    ELSE IF Len(c) = 1 THEN <<Value_to_string(c[1])>>
    ELSE <<Value_to_string(c[1]), ", ">> \o Joined(Tail(c))

LifoStep ==
    (stack_status = "running" /\ WellFormed) =>
        CASE stack_ret'.fn = "push" /\ size < STACK_MAX ->
                 /\ stack_status' = "running"
                 /\ WellFormed'
                 /\ Contents' = Append(Contents, NumberValue(stack_ret'.arg))
          [] stack_ret'.fn = "pop" /\ size > 0 ->
                 /\ stack_status' = "running"
                 /\ stack_ret'.val = Ok(Contents[size])
                 /\ WellFormed'
                 /\ Contents' = SubSeq(Contents, 1, size - 1)
          [] stack_ret'.fn = "peek" /\ stack_ret'.arg < size ->
                 /\ stack_status' = "running"
                 /\ stack_ret'.val = Ok(Contents[size - stack_ret'.arg])
                 /\ UNCHANGED <<stack_values, size, stack_ptr>>
          [] stack_ret'.fn = "fmt" ->
                 /\ stack_status' = "running"
                 /\ stack_ret'.val = Ok(<<"[">> \o Joined(Contents) \o <<"]">>)
                 /\ UNCHANGED <<stack_values, size, stack_ptr>>
          [] OTHER -> TRUE

\* C21: starting from the new stack, every push and pop that keeps
\* 0 <= size <= STACK_MAX keeps the live values in slots 0 .. size - 1 with
\* stack_ptr above them: push appends its value, pop returns and removes the
\* last one, peek(d) for d < size returns the d-th from the top, the number
\* of live values is size, and the display lists them bottom to top.
RawStackIsLifo ==
    /\ (stack_ret.fn = "new" /\ stack_status = "running") =>
           (WellFormed /\ Contents = <<>>)
    /\ [][LifoStep]_vars

PoppedInLifoOrder ==
    /\ stack_status = "running"
    /\ stack_ret.fn = "pop"
    /\ stack_ret.val = Ok(NumberValue(5))
    /\ WellFormed
    /\ Contents = <<NumberValue(6)>>

StackBoundsStep ==
    stack_status = "running" =>
        /\ (stack_ret'.fn = "push" /\ size = STACK_MAX) =>
               /\ stack_status' = "panicked"
               /\ UNCHANGED <<stack_values, size, stack_ptr>>
        /\ (stack_ret'.fn = "pop" /\ size = 0) =>
               /\ stack_status' = "panicked"
               /\ stack_ret'.val = None
               /\ stack_ptr' >= 0

\* C22: size stays within 0 .. STACK_MAX; push on a full stack panics and
\* writes no slot; pop on an empty stack panics, returns nothing and leaves
\* stack_ptr inside the array.
StackStaysInBounds ==
    /\ [](size \in 0 .. STACK_MAX)
    /\ [][StackBoundsStep]_vars

\* the index of the instruction a patched forward jump at index i lands on
JumpTarget(c, i) == i + 1 + c[i + 1].arg[1]

IfStatementEnds == At("if_statement", 3)

\* C23: when an if statement ends, its JumpIfFalse is followed by a Pop and
\* lands on the Pop that follows its Jump, the Jump lands on the first
\* instruction after the else branch (the end of the code so far), the then
\* branch lies between the first Pop and the Jump, each delta is the count
\* at patch time - offset - 1, and without an else nothing follows the
\* second Pop; `if (true) print 1; else print 2;` compiles to True
\* JumpIfFalse(4) Pop Constant(0) Print Jump(3) Pop Constant(1) Print
\* Return(0).
IfStatementCode ==
    /\ [][(IfStatementEnds /\ status' = "running") =>
              LET then_jump == Top.then_jump
                  else_jump == Top.else_jump
              IN  /\ then_jump + 2 <= else_jump
                  /\ code'[then_jump + 1] = Op1("OpJumpIfFalse", else_jump - then_jump)
                  /\ code'[then_jump + 2] = Op0("OpPop")
                  /\ code'[else_jump + 1] = Op1("OpJump", Len(code') - else_jump - 1)
                  /\ code'[else_jump + 2] = Op0("OpPop")
                  /\ JumpTarget(code', then_jump) = else_jump + 1
                  /\ JumpTarget(code', else_jump) = Len(code')
                  /\ \A i \in 1 .. Len(code) :
                         i # else_jump + 1 => code'[i] = code[i]]_vars
    /\ [][(At("if_statement", 2) /\ status' = "running") =>
              /\ code'[Top.then_jump + 1].arg = Some(Len(code') - 1 - Top.then_jump - 1)
              /\ Top'.fn = "if_statement" =>
                     Len(code') = Top'.else_jump + 2]_vars
    /\ []((status = "done" /\ tokens = TokenVector(IfElseSource)) =>
              /\ code = <<Op0("OpTrue"), Op1("OpJumpIfFalse", 4), Op0("OpPop"),
                          Op1("OpConstant", 0), Op0("OpPrint"), Op1("OpJump", 3),
                          Op0("OpPop"), Op1("OpConstant", 1), Op0("OpPrint"),
                          Op1("OpReturn", 0)>>
              /\ result = Some(TRUE))

IfElseCompiled ==
    /\ status = "done"
    /\ tokens = TokenVector(IfElseSource)
    /\ CountOps("OpJump") = 1
    /\ CountOps("OpJumpIfFalse") = 1

\* the index of the instruction a Loop at index i goes back to
LoopTarget(c, i) == i + 1 - c[i + 1].arg[1]

WhileStatementEnds == At("while_statement", 2)

\* C24: when a while statement ends, its code from loop_start on is the
\* condition, JumpIfFalse, a plain Pop, the body, Loop, Pop: the Loop goes
\* back to loop_start, the JumpIfFalse lands on the final Pop, and the
\* instruction after the JumpIfFalse is still the unpatched Pop;
\* `var i = 0; while (i < 3) i = i + 1;` holds one Loop going back to the
\* GetGlobal of the condition.
WhileStatementCode ==
    /\ [][(At("while_statement", 1) /\ status' = "running") =>
              /\ Len(code') = Len(code) + 2
              /\ code'[Len(code) + 1] = Op0("OpJumpIfFalse")
              /\ code'[Len(code) + 2] = Op0("OpPop")
              /\ Top'.fn = "statement"
              /\ stack'[Len(stack)].exit_jump = Len(code)
              /\ stack'[Len(stack)].loop_start <= Len(code)]_vars
    /\ [][(WhileStatementEnds /\ status' = "running") =>
              LET exit_jump == Top.exit_jump
                  loop_start == Top.loop_start
                  end == Len(code') - 1
              IN  /\ Len(code') = Len(code) + 2
                  /\ loop_start <= exit_jump
                  /\ code'[exit_jump + 1].op = "OpJumpIfFalse"
                  /\ JumpTarget(code', exit_jump) = end
                  /\ code'[exit_jump + 2] = Op0("OpPop")
                  /\ code'[end].op = "OpLoop"
                  /\ LoopTarget(code', end - 1) = loop_start
                  /\ code'[end + 1] = Op0("OpPop")
                  /\ \A i \in 1 .. Len(code) :
                         i # exit_jump + 1 => code'[i] = code[i]]_vars
    /\ []((status = "done" /\ tokens = TokenVector(WhileSource)) =>
              /\ code = <<Op1("OpConstant", 1), Op1("OpDefineGlobal", 0),
                          Op1("OpGetGlobal", 0), Op1("OpConstant", 2), Op0("OpLess"),
                          Op1("OpJumpIfFalse", 7), Op0("OpPop"),
                          Op1("OpGetGlobal", 0), Op1("OpConstant", 3), Op0("OpAdd"),
                          Op1("OpSetGlobal", 0), Op0("OpPop"),
                          Op1("OpLoop", 11), Op0("OpPop"), Op1("OpReturn", 0)>>
              /\ result = Some(TRUE))

WhileCompiled ==
    /\ status = "done"
    /\ tokens = TokenVector(WhileSource)
    /\ CountOps("OpLoop") = 1
    /\ CountOps("OpJumpIfFalse") = 1

ForStatementEnds == At("for_statement", 6)

\* the code the for statement's end appends: Loop, then Pop after a patched
\* exit jump, then one Pop per local of the statement's scope
ForJumps ==
    /\ [][(At("for_statement", 1) /\ status' = "running") =>
              /\ code' = code
              /\ stack'[Len(stack)].loop_start = Len(code)
              /\ stack'[Len(stack)].exit_jump = None]_vars
    /\ [][(At("for_statement", 2) /\ status' = "running") =>
              /\ code' = code \o <<Op0("OpJumpIfFalse"), Op0("OpPop")>>
              /\ Top' = [Top EXCEPT !.pc = 3, !.exit_jump = Some(Len(code))]]_vars
    /\ [][(At("for_statement", 3) /\ status' = "running") =>
              IF Top'.fn = "for_statement"
              THEN code' = code /\ Top' = [Top EXCEPT !.pc = 5]
              ELSE /\ code' = Append(code, Op0("OpJump"))
                   /\ stack'[Len(stack)].loop_start = Top.loop_start
                   /\ stack'[Len(stack)].body_jump = Len(code)
                   /\ stack'[Len(stack)].incr_start = Len(code) + 1]_vars
    /\ [][(At("for_statement", 4) /\ status' = "running") =>
              /\ Len(code') = Len(code) + 2
              /\ code'[Len(code) + 1] = Op0("OpPop")
              /\ code'[Len(code) + 2].op = "OpLoop"
              /\ LoopTarget(code', Len(code) + 1) = Top.loop_start
              /\ code'[Top.body_jump + 1].op = "OpJump"
              /\ JumpTarget(code', Top.body_jump) = Len(code')
              /\ Top'.loop_start = Top.incr_start
              /\ Top'.pc = 5]_vars
    /\ [][(ForStatementEnds /\ status' = "running") =>
              /\ code'[Len(code) + 1].op = "OpLoop"
              /\ LoopTarget(code', Len(code)) = Top.loop_start
              /\ IF Top.exit_jump = None
                 THEN \A i \in 1 .. Len(code) : code'[i] = code[i]
                 ELSE /\ code'[Top.exit_jump[1] + 1].op = "OpJumpIfFalse"
                      /\ JumpTarget(code', Top.exit_jump[1]) = Len(code) + 1
                      /\ code'[Len(code) + 2] = Op0("OpPop")]_vars

\* C25: in a for statement the Loop after the increment goes back to the
\* condition, the Loop after the body goes back to the increment (to the
\* condition when there is none), the body Jump lands on the first
\* instruction of the body, the exit JumpIfFalse exists only with a
\* condition and lands on the trailing Pop, and a local declared in the
\* initializer is removed and popped when the statement ends: after the
\* body's Loop of `{ var a; for (var b;;) { var c; } }` come the Pop of b,
\* the Pop of a and Return.
ForStatementCode ==
    /\ ForJumps
    /\ []((status = "done" /\ tokens = TokenVector(ForSource)) =>
              /\ code = <<Op1("OpConstant", 0), 
                          Op1("OpGetLocal", 0), Op1("OpConstant", 1), Op0("OpLess"),
                          Op1("OpJumpIfFalse", 11), Op0("OpPop"),
                          Op1("OpJump", 6),
                          Op1("OpGetLocal", 0), Op1("OpConstant", 2), Op0("OpAdd"),
                          Op1("OpSetLocal", 0), Op0("OpPop"), Op1("OpLoop", 12),
                          Op1("OpGetLocal", 0), Op0("OpPrint"), Op1("OpLoop", 9),
                          Op0("OpPop"), Op0("OpPop"), Op1("OpReturn", 0)>>
              /\ count = 0)
    /\ []((status = "done" /\ tokens = TokenVector(ForFullTableSource)) =>
              /\ Len(code) >= 4
              /\ code[Len(code) - 3].op = "OpLoop"
              /\ code[Len(code) - 2] = Op0("OpPop")
              /\ code[Len(code) - 1] = Op0("OpPop")
              /\ count = 0)

\* the opcodes of a binary operator
BinaryOpcodes(t) ==
    CASE t = "Plus" -> <<Op0("OpAdd")>>
      [] t = "Minus" -> <<Op0("OpSubtract")>>
      [] t = "Star" -> <<Op0("OpMultiply")>>
      [] t = "Slash" -> <<Op0("OpDivide")>>
      [] t = "BangEqual" -> <<Op0("OpEqual"), Op0("OpNot")>>
      [] t = "EqualEqual" -> <<Op0("OpEqual")>>
      [] t = "Greater" -> <<Op0("OpGreater")>>
      [] t = "GreaterEqual" -> <<Op0("OpLess"), Op0("OpNot")>>
      [] t = "Less" -> <<Op0("OpLess")>>
      [] t = "LessEqual" -> <<Op0("OpGreater"), Op0("OpNot")>>

\* the levels of the binary operators, lowest first
BindsTighter(o2, o1) ==
    LET level(t) == CASE t \in {"BangEqual", "EqualEqual"} -> 1
                      [] t \in {"Greater", "GreaterEqual", "Less", "LessEqual"} -> 2
                      [] t \in {"Plus", "Minus"} -> 3
                      [] t \in {"Star", "Slash"} -> 4
    IN  level(o2) > level(o1)

\* the code of `a o1 b o2 c;` with a, b, c globals
BinaryCode(o1, o2) ==
    <<Op1("OpGetGlobal", 0), Op1("OpGetGlobal", 1)>>
        \o (IF BindsTighter(o2, o1)
            THEN <<Op1("OpGetGlobal", 2)>> \o BinaryOpcodes(o2) \o BinaryOpcodes(o1)
            ELSE BinaryOpcodes(o1) \o <<Op1("OpGetGlobal", 2)>> \o BinaryOpcodes(o2))
        \o <<Op0("OpPop"), Op1("OpReturn", 0)>>

\* C26: `a o1 b o2 c;` applies o2 first exactly when o2 binds tighter than
\* o1, and o1 first otherwise (same level: left to right): `a - b - c`
\* emits a b Subtract c Subtract, `a + b * c` emits a b c Multiply Add,
\* `a < b == c` emits a b Less c Equal.
BinaryIsLeftAssociative ==
    \A o1, o2 \in BinaryOperators :
        (status = "done" /\ tokens = TokenVector(BinarySource(o1, o2))) =>
            /\ code = BinaryCode(o1, o2)
            /\ result = Some(TRUE)

SubtractedLeftToRight ==
    /\ status = "done"
    /\ tokens = TokenVector(BinarySource("Minus", "Minus"))
    /\ code = <<Op1("OpGetGlobal", 0), Op1("OpGetGlobal", 1), Op0("OpSubtract"),
                Op1("OpGetGlobal", 2), Op0("OpSubtract"), Op0("OpPop"),
                Op1("OpReturn", 0)>>

\* one of the conditions that end synchronize holds
SynchronizeStops ==
    \/ current[1].type = "EOF"
    \/ previous[1].type = "Semicolon"
    \/ current[1].type \in SyncKeywords

\* C27: synchronize first clears panic_mode without consuming a token; then
\* each pass of its loop returns, consuming nothing, when the previous token
\* is `;`, the current token is class, fun, var, for, if, while, print or
\* return, or the current token is EOF, and otherwise advances: previous
\* becomes the old current and, while tokens remain, at least one is
\* consumed.  A current EOF is never advanced past.
SynchronizeSkipsToBoundary ==
    /\ [][(At("synchronize", 0) /\ status' = "running") =>
              /\ ~panic_mode'
              /\ stack' = Goto([Top EXCEPT !.pc = 1])
              /\ UNCHANGED <<tokpos, previous, current, code, stderr, had_error>>]_vars
    /\ [][(At("synchronize", 1) /\ status' = "running") =>
              IF SynchronizeStops
              THEN /\ stack' = Return
                   /\ UNCHANGED <<tokpos, previous, current, panic_mode, code, stderr>>
              ELSE /\ stack' = stack
                   /\ previous' = current
                   /\ tokpos < Len(tokens) => tokpos' > tokpos
                   /\ tokpos' <= Len(tokens)
                   /\ current'[1] = tokens[tokpos']
                   /\ UNCHANGED code]_vars
    /\ [][(status = "running" /\ current # None /\ current[1].type = "EOF"
               /\ \E i \in 1 .. Len(stack) : stack[i].fn = "synchronize") =>
              UNCHANGED <<tokpos, current>>]_vars

SynchronizedAtEOF ==
    /\ At("declaration", 2)
    /\ tokens = TokenVector(<<K("RightParen"), K("RightParen")>>)
    /\ ~panic_mode
    /\ previous[1].type = "RightParen"
    /\ current[1].type = "EOF"

DeclarationReturns ==
    /\ At("declaration", 1) \/ At("declaration", 2)
    /\ status' = "running"
    /\ stack' = Return

\* C29: declaration returns with panic_mode false, also after synchronize
\* has skipped Error tokens, so the declaration that follows starts with
\* panic_mode false and its first error is written.
DeclarationLeavesPanicMode == [][DeclarationReturns => ~panic_mode']_vars

\* C30: the step that defines a declared variable changes no depth except
\* that of the last local when it belongs to the current scope, so a failed
\* declaration changes none, and a local lives until the scope that
\* declared it ends: in `{ var a; var b; { var c; } print b; }` with a table
\* of two locals, b is still local at `print b` and both Pops come at the
\* end of the outer block.
LocalsDieWithTheirScope ==
    /\ [][(At("var_declaration", 1) /\ status' = "running") =>
              /\ count' = count
              /\ \A i \in 0 .. count - 1 :
                     locals'[i].depth # locals[i].depth =>
                         /\ i = count - 1
                         /\ locals[i].depth \in {None, Some(scope_depth)}]_vars
    /\ []((status = "done" /\ tokens = TokenVector(FullTableSource)) =>
              code = <<Op0("OpNil"), Op0("OpNil"), Op0("OpNil"),
                       Op1("OpGetLocal", 1), Op0("OpPrint"),
                       Op0("OpPop"), Op0("OpPop"), Op1("OpReturn", 0)>>)

Exhausted == tokpos = Len(tokens)

Terminated ==
    \/ scan_status = "panicked"
    \/ status \in {"done", "panicked", "crashed"}

\* a loop whose next iteration cannot consume a token is left at its head
LoopStopsWhenExhausted ==
    (Exhausted /\ current # None) =>
        /\ At("compile", 1) => current[1].type = "EOF"
        /\ (At("synchronize", 1) /\ previous # None) => SynchronizeStops
        /\ At("block", 0) => current[1].type \in {"RightBrace", "EOF"}
        /\ (At("parse", 1) /\ ~get_rule(current[1]).todo) =>
               ~(Top.precedence <= get_rule(current[1]).precedence)

\* C28: scan_tokens followed by compile on the vector it returned comes to
\* an end for every source text: once the iterator is exhausted and advance
\* leaves current unchanged, the loops of compile, block, parse and
\* synchronize stop at their head, and the run ends.
ScanThenCompileTerminates == [] LoopStopsWhenExhausted /\ <> Terminated

ScopeStep ==
    /\ scope_depth' \in {scope_depth - 1, scope_depth, scope_depth + 1}
    /\ scope_depth' >= 0
    /\ (scope_depth' < scope_depth /\ status' = "running") =>
           \A i \in 0 .. count' - 1 :
               locals'[i].depth # None => locals'[i].depth[1] <= scope_depth'

\* C31: when compile returns, with or without diagnostics, scope_depth is 0
\* and no local is left in the table; scope_depth moves by single steps,
\* never below 0, and the end of a scope leaves no local deeper than the
\* depth it returns to.
ScopesAreBalanced ==
    /\ [](status = "done" => scope_depth = 0 /\ count = 0)
    /\ [](scope_depth >= 0 /\ count \in 0 .. LOCALS_COUNT)
    /\ [][ScopeStep]_vars

ReturnedAfterNestedScopes ==
    /\ status = "done"
    /\ had_error
    /\ \E i \in 1 .. Len(code) - 1 : code[i].op = "OpPop" /\ code[i + 1].op = "OpPop"
    /\ \E i \in 1 .. Len(tokens) - 1 :
           tokens[i].type = "LeftBrace" /\ tokens[i + 1].type = "LeftBrace"

\* no run of the code pops from an empty stack, addresses a slot at or above
\* the height, leaves the code or reaches Return with a value left
StackSafe(c) ==
    \A cf \in VmReach(c) :
        /\ cf[1] \in 1 .. Len(c) + 1
        /\ cf[2] <= Len(c)
        /\ cf[1] <= Len(c) => Runs(c, cf)

\* heights with which control reaches the end of the code emitted so far
EndHeights(c) == {cf[2] : cf \in {x \in VmReach(c) : x[1] = Len(c) + 1}}

\* C32: a program compiled without diagnostics yields code that keeps the
\* value stack in step with the locals table: no opcode pops from an empty
\* stack, every GetLocal/SetLocal slot is below the height, Return is reached
\* with height 0, and whenever a declaration or statement of a block has
\* been compiled every path to the end of the code so far arrives with as
\* many values as there are live locals.
StackInLockstepWithLocals ==
    /\ []((status = "done" /\ stderr = <<>>) => StackSafe(code))
    /\ [][(DeclarationReturns /\ stderr' = <<>>) =>
              EndHeights(code') \subseteq {count'}]_vars

ResetStep ==
    (stack_ret'.fn = "reset_stack" /\ stack_status' = "running") =>
        /\ size' = 0
        /\ stack_ptr' = 0

PushAfterResetStep ==
    (stack_ret'.fn = "push" /\ stack_status' = "running" /\ size = 0) =>
        /\ stack_values'[0] # None
        /\ stack_values'[0][1].num = stack_ret'.arg

\* C33: while the stack is in use stack_ptr is size slots above the base of
\* values; reset_stack leaves size 0 and stack_ptr at the base, and a push on
\* a stack of size 0 writes slot 0.
StackPtrFollowsSize ==
    /\ [](stack_status = "running" => stack_ptr = size)
    /\ [][ResetStep]_vars
    /\ [][PushAfterResetStep]_vars

====
